---- MODULE Spec2Model ----
(***************************************************************************)
(* A model of mcp-compose's composer (src/mcp_compose/composer.py):        *)
(*   - the module-level shutdown registry and its signal handlers,         *)
(*   - MCPServerComposer.start / stop / shutdown_all_processes,            *)
(*   - the termination of one tracked subprocess (_kill_process and        *)
(*     _close_process_pipes),                                              *)
(*   - the composition of tools, prompts and resources under a conflict    *)
(*     resolution strategy.                                                *)
(*                                                                         *)
(* asyncio runs coroutines cooperatively: the code between two awaits that *)
(* really suspend is one atomic step, so every action below is the code    *)
(* from one suspension point to the next.                                  *)
(***************************************************************************)
EXTENDS Integers, Sequences, FiniteSets, TLC

\* ------------------------------------------------------------------ bounds
NumComposers == 2      \* composer objects that may be constructed
NumProcs == 2          \* names that may be put in composer.processes
MaxSched == 1          \* stop() tasks scheduled by signals and not yet run, per composer
CounterCap == 2        \* the call counters saturate here
MaxTools == 2          \* tools that one server exports
MaxStates == 2         \* state values that /authorize issues
MaxClock == 3          \* readings of time.time(), in periods of 300 seconds
MaxCalls == 3          \* requests sent through one ToolProxy
MaxChunk == 3          \* characters that one read of the stream brings
MaxReads == 2          \* reads of the stream
MaxLine == 6           \* characters of the longest line of the stream
MaxAttempts == 2       \* the largest max_reconnect_attempts
MaxRestarts == 2       \* restarts of the supervised process
MaxStops == 2          \* concurrent callers of stop() on the supervised process

Composers == 1..NumComposers
ProcNames == 1..NumProcs
Signals == {"SIGTERM", "SIGINT"}
PipeNames == <<"stdin", "stdout", "stderr">>
PipeSet == {"stdin", "stdout", "stderr"}
\* who makes a call: stop() awaited on the main thread's loop, stop() awaited
\* on another thread's loop, the stop() task the signal handler scheduled (on
\* the main thread's loop), or a direct call of shutdown_all_processes()
Kinds == {"stop_main", "stop_thread", "stop_signal", "shutdown"}
Phases == {"pm", "kill"}
NoPipes == [x \in PipeSet |-> "none"]

VARIABLES
    \* module-level registry (composer.py 46-49) and the process's signal table
    _active_composers, _original_sigterm_handler, _original_sigint_handler,
    _signal_handlers_installed, handler, initialHandler, offMain,
    \* per composer object
    constructed, _shutting_down, process_manager, processes,
    \* per composer, per name: the object once put in composer.processes
    popen, killTask,
    \* coroutines: stop() tasks scheduled by the signal handler, and the calls
    \* suspended inside shutdown_all_processes, counted by (kind, phase)
    sched, inflight,
    \* counters of the calls made so far (saturating), and the last call that ended
    teardownRuns, pmStopCalls, unregisterCalls, ret,
    \* per composer: the strategy and the composition state (composer.py 194,
    \* 202-206), and the _compose_server calls made so far
    conflict_resolution, composed_tools, composed_prompts, composed_resources,
    source_mapping, conflicts_resolved, composeLog,
    \* per composer: the composition call in progress (compose_servers,
    \* compose_from_pyproject or compose_from_config) and its composition_errors
    batch,
    \* the run_server call of the command line (cli.py): where it is and what
    \* has happened to the configured servers
    run,
    \* the ToolProxy of one stdio server: the next request id, the pending
    \* requests, the two pipes, what each call has returned, the transport
    proxy,
    \* one HttpStreamTransport: its connection, its line buffer and its queue
    stream,
    \* one Process supervised by a ProcessManager
    supervised,
    \* per composer: the conflicts_resolved list of its ToolManager, for a
    \* composer made with use_tool_manager=True
    tool_manager,
    \* the OAuth routes (api/routes/oauth.py): the module's configuration and
    \* state store, the clock, the callbacks suspended in the token exchange,
    \* the last response, and what has happened to each state value so far
    oauth

sigVars == <<_original_sigterm_handler, _original_sigint_handler,
             _signal_handlers_installed, handler>>
regVars == <<_active_composers, sigVars, initialHandler, offMain, unregisterCalls>>
objVars == <<constructed, _shutting_down, process_manager>>
procVars == <<processes, popen, killTask>>
taskVars == <<sched, inflight, teardownRuns, pmStopCalls>>
extVars == <<run, proxy, stream, supervised, tool_manager, oauth>>
compVars == <<conflict_resolution, composed_tools, composed_prompts, composed_resources,
              source_mapping, conflicts_resolved, composeLog, batch, extVars>>
vars == <<regVars, objVars, procVars, taskVars, ret, compVars>>

Bump(n) == IF n < CounterCap THEN n + 1 ELSE n

\* the call that ended in the last step: which operation, on which composer, how
\* it ended, on the main thread or not, from the signal handler's task or not
NoRet == [op |-> "none", c |-> 0, outcome |-> "none", main |-> TRUE, signal |-> FALSE]
Ret(op, c, outcome, main) ==
    [op |-> op, c |-> c, outcome |-> outcome, main |-> main, signal |-> FALSE]
OnMain(k) == k # "stop_thread"
CallRet(c, k, outcome) ==
    [op |-> IF k = "shutdown" THEN "shutdown_all_processes" ELSE "stop", c |-> c,
     outcome |-> outcome, main |-> OnMain(k), signal |-> (k = "stop_signal")]

\* an object that was never created
NoPopen == [obj |-> "absent", alive |-> FALSE, sawAlive |-> FALSE,
            terminateCalls |-> 0, killCalls |-> 0, wait1 |-> "none",
            pipes |-> NoPipes, result |-> "none"]

\* a Python dict is a function whose domain is its set of keys
EmptyDict == <<>>
Put(d, k, v) == [x \in (DOMAIN d) \cup {k} |-> IF x = k THEN v ELSE d[x]]

\* composer.py 160-167 and the default of __init__ (line 176)
Strategies == {"prefix", "suffix", "ignore", "error", "override"}
DefaultStrategy == "prefix"

\* ------------------------------------------------- registry, signal handlers

\* signal.getsignal(): None for a handler that was not installed from Python
getsignal(sig) == IF handler[sig] = "C_handler" THEN "None" ELSE handler[sig]

\* composer.py 86-111.  signal.signal() raises ValueError off the main thread;
\* the first assignment (line 99) has already happened by then.
_install_signal_handlers(onMain) ==
    IF _signal_handlers_installed
    THEN UNCHANGED sigVars
    ELSE IF onMain
    THEN /\ _original_sigterm_handler' = getsignal("SIGTERM")
         /\ _original_sigint_handler' = getsignal("SIGINT")
         /\ handler' = [s \in Signals |-> "module"]
         /\ _signal_handlers_installed' = TRUE
    ELSE /\ _original_sigterm_handler' = getsignal("SIGTERM")
         /\ UNCHANGED <<_original_sigint_handler, _signal_handlers_installed, handler>>

\* a bug: the flag is reset but the saved handlers are not put back
_uninstall_signal_handlers_NoRestore(onMain) ==
    IF ~_signal_handlers_installed
    THEN UNCHANGED sigVars
    ELSE /\ _signal_handlers_installed' = FALSE
         /\ _original_sigterm_handler' = "None"
         /\ _original_sigint_handler' = "None"
         /\ UNCHANGED handler

\* composer.py 114-134.  Off the main thread the first signal.signal() raises
\* and nothing is changed.
_uninstall_signal_handlers(onMain) ==
    IF ~_signal_handlers_installed
    THEN UNCHANGED sigVars
    ELSE IF onMain \/ (_original_sigterm_handler = "None" /\ _original_sigint_handler = "None")
    THEN /\ handler' = [s \in Signals |->
                LET orig == IF s = "SIGTERM" THEN _original_sigterm_handler
                                             ELSE _original_sigint_handler
                IN IF orig # "None" THEN orig ELSE handler[s]]
         /\ _signal_handlers_installed' = FALSE
         /\ _original_sigterm_handler' = "None"
         /\ _original_sigint_handler' = "None"
    ELSE UNCHANGED sigVars

\* a bug: the constructor installs the handlers but the composer is only
\* added to the registry later (by start())
_register_composer_NoAdd(c, onMain) ==
    /\ UNCHANGED _active_composers
    /\ offMain' = (offMain \/ ~onMain)
    /\ _install_signal_handlers(onMain)

\* composer.py 137-145
_register_composer(c, onMain) ==
    /\ _active_composers' = _active_composers \cup {c}
    /\ offMain' = (offMain \/ ~onMain)
    /\ _install_signal_handlers(onMain)

\* composer.py 148-157
_unregister_composer(c, onMain) ==
    /\ _active_composers' = _active_composers \ {c}
    /\ unregisterCalls' = [unregisterCalls EXCEPT ![c] = Bump(@)]
    /\ offMain' = (offMain \/ ~onMain)
    /\ IF _active_composers' = {}
       THEN _uninstall_signal_handlers(onMain)
       ELSE UNCHANGED sigVars

\* a bug: the handler does not look at the loop
_module_signal_handler_AnyLoop(loop) == _active_composers

\* composer.py 52-83: the composers for which the handler schedules a stop()
\* task, given the state of the event loop of the main thread
_module_signal_handler(loop) ==
    IF _active_composers = {} THEN {}
    ELSE IF loop # "running" THEN {}
    ELSE _active_composers

\* The OS delivers sig; the module handler runs when it is the installed one.
Signal(sig, loop) ==
    /\ handler[sig] = "module"
    /\ LET targets == _module_signal_handler(loop) IN
       /\ \A c \in targets : sched[c] < MaxSched
       /\ sched' = [c \in Composers |-> IF c \in targets THEN sched[c] + 1 ELSE sched[c]]
       /\ ret' = [NoRet EXCEPT !.op = "signal", !.outcome = loop]
    /\ UNCHANGED <<regVars, objVars, procVars, inflight, teardownRuns, pmStopCalls, compVars>>

\* ------------------------------------------------------ composer lifecycle

\* composer.py 173-238: MCPServerComposer.__init__
Construct(c, strategy, usePM, onMain) ==
    /\ c \notin constructed
    /\ \A d \in Composers : d < c => d \in constructed
    /\ constructed' = constructed \cup {c}
    /\ conflict_resolution' = [conflict_resolution EXCEPT ![c] = strategy]
    /\ composed_tools' = [composed_tools EXCEPT ![c] = EmptyDict]
    /\ composed_prompts' = [composed_prompts EXCEPT ![c] = EmptyDict]
    /\ composed_resources' = [composed_resources EXCEPT ![c] = EmptyDict]
    /\ source_mapping' = [source_mapping EXCEPT ![c] = EmptyDict]
    /\ conflicts_resolved' = [conflicts_resolved EXCEPT ![c] = <<>>]
    /\ _shutting_down' = [_shutting_down EXCEPT ![c] = FALSE]
    /\ process_manager' = [process_manager EXCEPT ![c] = IF usePM THEN "created" ELSE "None"]
    /\ _register_composer(c, onMain)
    /\ ret' = Ret("__init__", c, "returned", onMain)
    /\ UNCHANGED <<initialHandler, unregisterCalls, procVars, taskVars, composeLog, batch, extVars>>

\* a bug: start() puts the composer in the registry again
Start_Registers(c) ==
    /\ c \in constructed
    /\ process_manager' = [process_manager EXCEPT ![c] = IF @ = "None" THEN @ ELSE "started"]
    /\ _register_composer(c, TRUE)
    /\ ret' = Ret("start", c, "returned", TRUE)
    /\ UNCHANGED <<constructed, _shutting_down, initialHandler, unregisterCalls, procVars, taskVars, compVars>>

\* composer.py 745-749: MCPServerComposer.start
Start(c) ==
    /\ c \in constructed
    /\ process_manager' = [process_manager EXCEPT ![c] = IF @ = "None" THEN @ ELSE "started"]
    /\ ret' = Ret("start", c, "returned", TRUE)
    /\ UNCHANGED <<constructed, _shutting_down, regVars, procVars, taskVars, compVars>>

InflightAdd(infl, c, k, ph, d) == [infl EXCEPT ![c][k][ph] = @ + d]

IsStop(k) == k # "shutdown"

\* a bug: stop() without its guard
StopGuard_Missing(c) == FALSE

\* the guard of stop(), composer.py 756-760
StopGuard(c) == _shutting_down[c]

\* a bug: shutdown_all_processes() without its guard
ShutdownGuard_Missing(c) == FALSE

\* the guard of shutdown_all_processes(), composer.py 801-803
ShutdownGuard(c) == _shutting_down[c]

\* shutdown_all_processes() returns normally to its caller: a direct caller
\* gets the return; stop() goes on to composer.py 762-763
Returns(c, k) ==
    IF IsStop(k)
    THEN /\ _unregister_composer(c, OnMain(k))
         /\ ret' = CallRet(c, k, "returned")
         /\ UNCHANGED initialHandler
    ELSE /\ ret' = CallRet(c, k, "returned")
         /\ UNCHANGED regVars

\* composer.py 813-824 up to the suspension in asyncio.gather(); infl is the
\* table of suspended calls without the running one
KillPhase(c, k, infl) ==
    IF processes[c] # {}
    THEN /\ killTask' = [killTask EXCEPT ![c] =
                [p \in ProcNames |-> IF p \in processes[c] THEN "created" ELSE @[p]]]
         /\ inflight' = InflightAdd(infl, c, k, "kill", 1)
         /\ ret' = NoRet
         /\ UNCHANGED <<processes, popen, regVars>>
    ELSE /\ inflight' = infl
         /\ UNCHANGED procVars
         /\ Returns(c, k)

\* composer.py 804-810: the flag is set and the ProcessManager, when there is
\* one, is asked to stop
Teardown(c, k) ==
    /\ _shutting_down' = [_shutting_down EXCEPT ![c] = TRUE]
    /\ teardownRuns' = [teardownRuns EXCEPT ![c] = Bump(@)]
    /\ IF process_manager[c] # "None"
       THEN /\ pmStopCalls' = [pmStopCalls EXCEPT ![c] = Bump(@)]
            /\ inflight' = InflightAdd(inflight, c, k, "pm", 1)
            /\ ret' = NoRet
            /\ UNCHANGED <<procVars, regVars>>
       ELSE /\ UNCHANGED pmStopCalls
            /\ KillPhase(c, k, inflight)

\* composer.py 751-763 with 801-804: the body of one call, up to its first
\* suspension
CallBody(c, k) ==
    IF IsStop(k) /\ StopGuard(c)
    THEN /\ ret' = CallRet(c, k, "skipped")
         /\ UNCHANGED <<_shutting_down, regVars, procVars, inflight, teardownRuns, pmStopCalls>>
    ELSE IF ShutdownGuard(c)
    THEN /\ UNCHANGED <<_shutting_down, procVars, inflight, teardownRuns, pmStopCalls>>
         /\ IF IsStop(k)
            THEN Returns(c, k)
            ELSE /\ ret' = CallRet(c, k, "skipped")
                 /\ UNCHANGED regVars
    ELSE Teardown(c, k)

\* a caller awaits composer.stop() on the main thread's loop or on another's
StopCall(c, onMain) ==
    /\ c \in constructed
    /\ CallBody(c, IF onMain THEN "stop_main" ELSE "stop_thread")
    /\ UNCHANGED <<constructed, process_manager, sched, compVars>>

\* a caller awaits composer.shutdown_all_processes() directly
ShutdownCall(c) ==
    /\ c \in constructed
    /\ CallBody(c, "shutdown")
    /\ UNCHANGED <<constructed, process_manager, sched, compVars>>

\* the loop runs a stop() task that the signal handler scheduled (line 83)
RunScheduled(c) ==
    /\ sched[c] > 0
    /\ sched' = [sched EXCEPT ![c] = @ - 1]
    /\ CallBody(c, "stop_signal")
    /\ UNCHANGED <<constructed, process_manager, compVars>>

\* composer.py 809: ProcessManager.stop() returns
PMStopReturns(c, k) ==
    /\ inflight[c][k]["pm"] > 0
    /\ process_manager' = [process_manager EXCEPT ![c] = "stopped"]
    /\ KillPhase(c, k, InflightAdd(inflight, c, k, "pm", -1))
    /\ UNCHANGED <<constructed, _shutting_down, sched, teardownRuns, pmStopCalls, compVars>>

\* composer.py 809: ProcessManager.stop() raises; nothing catches it in
\* shutdown_all_processes() nor in stop()
PMStopRaises(c, k) ==
    /\ inflight[c][k]["pm"] > 0
    /\ inflight' = InflightAdd(inflight, c, k, "pm", -1)
    /\ ret' = CallRet(c, k, "raised")
    /\ UNCHANGED <<regVars, objVars, procVars, sched, teardownRuns, pmStopCalls, compVars>>

\* composer.py 822-824: every gathered _kill_process has ended
GatherDone(c, k) ==
    /\ inflight[c][k]["kill"] > 0
    /\ \A p \in ProcNames : killTask[c][p] \in {"idle", "done"}
    /\ inflight' = InflightAdd(inflight, c, k, "kill", -1)
    /\ processes' = [processes EXCEPT ![c] = {}]
    /\ killTask' = [killTask EXCEPT ![c] = [p \in ProcNames |-> "idle"]]
    /\ UNCHANGED popen
    /\ Returns(c, k)
    /\ UNCHANGED <<objVars, sched, teardownRuns, pmStopCalls, compVars>>

\* ------------------------------------------------ one tracked subprocess

CallOutcomes == {"ok", "raises"}

\* what close() may do on each pipe of r; a pipe that is None is never closed
PipeOutcomes(r) ==
    {out \in [PipeSet -> CallOutcomes] : \A x \in PipeSet : r.pipes[x] = "none" => out[x] = "ok"}

\* composer.py 886-896: the pipes are visited in order; a pipe that is None is
\* skipped; close() either succeeds or raises, and the error is logged
RECURSIVE ClosePipesFrom(_, _, _)
ClosePipesFrom(i, r, out) ==
    IF i > Len(PipeNames) THEN r
    ELSE LET x == PipeNames[i] IN
         IF r.pipes[x] = "none"
         THEN ClosePipesFrom(i + 1, r, out)
         ELSE ClosePipesFrom(i + 1,
                 [r EXCEPT !.pipes[x] = IF out[x] = "ok" THEN "closed" ELSE "failed"], out)

\* a bug: the first close() that raises ends the loop and propagates
RECURSIVE ClosePipesAbort(_, _, _)
ClosePipesAbort(i, r, out) ==
    IF i > Len(PipeNames) THEN r
    ELSE LET x == PipeNames[i] IN
         IF r.pipes[x] = "none"
         THEN ClosePipesAbort(i + 1, r, out)
         ELSE IF out[x] = "ok"
         THEN ClosePipesAbort(i + 1, [r EXCEPT !.pipes[x] = "closed"], out)
         ELSE [r EXCEPT !.pipes[x] = "failed", !.result = "raised"]

_close_process_pipes_Abort(r, out) == ClosePipesAbort(1, r, out)

\* composer.py 878-896: the Popen record after _close_process_pipes; out gives
\* what close() does on each pipe
_close_process_pipes(r, out) == ClosePipesFrom(1, r, out)

\* the coroutine ends: composer.py 855-856 or the finally clause at 875-876
Finish(r, out) == [_close_process_pipes(r, out) EXCEPT !.result =
                      IF _close_process_pipes(r, out).result = "raised" THEN "raised" ELSE "ok"]

\* a bug: no except clause, the error of terminate() leaves the coroutine
KillStart_NoExcept(r, tOut, out) ==
    IF r.obj = "nopoll"
    THEN [popen |-> [r EXCEPT !.result = "ok"], task |-> "done"]
    ELSE IF ~r.alive
    THEN [popen |-> Finish(r, out), task |-> "done"]
    ELSE LET t == [r EXCEPT !.sawAlive = TRUE, !.terminateCalls = Bump(@)] IN
         IF tOut = "ok"
         THEN [popen |-> t, task |-> "wait1"]
         ELSE [popen |-> [_close_process_pipes(t, out) EXCEPT !.result = "raised"], task |-> "done"]

\* a bug: poll() is not asked, terminate() is sent to a process that has exited
KillStart_NoPoll(r, tOut, out) ==
    IF r.obj = "nopoll"
    THEN [popen |-> [r EXCEPT !.result = "ok"], task |-> "done"]
    ELSE LET t == [r EXCEPT !.sawAlive = TRUE, !.terminateCalls = Bump(@)] IN
         IF tOut = "ok"
         THEN [popen |-> t, task |-> "wait1"]
         ELSE [popen |-> Finish(t, out), task |-> "done"]

\* composer.py 846-862: _kill_process up to its first suspension.  tOut is what
\* terminate() does.  Gives the Popen record and the coroutine's position.
KillStart(r, tOut, out) ==
    IF r.obj = "nopoll"
    THEN [popen |-> [r EXCEPT !.result = "ok"], task |-> "done"]
    ELSE IF ~r.alive
    THEN [popen |-> Finish(r, out), task |-> "done"]
    ELSE LET t == [r EXCEPT !.sawAlive = TRUE, !.terminateCalls = Bump(@)] IN
         IF tOut = "ok"
         THEN [popen |-> t, task |-> "wait1"]
         ELSE [popen |-> Finish(t, out), task |-> "done"]

\* a bug: kill() is sent whether or not the wait timed out
AfterWait_KillAlways(r, timedOut, kOut, out) ==
    LET k == [r EXCEPT !.wait1 = IF timedOut THEN "timeout" ELSE "exited",
                       !.killCalls = Bump(@)] IN
    IF kOut = "ok"
    THEN [popen |-> k, task |-> "wait2"]
    ELSE [popen |-> Finish(k, out), task |-> "done"]

\* composer.py 862-870: process.wait(timeout) came back, with the exit or with
\* TimeoutExpired; kOut is what kill() does
AfterWait(r, timedOut, kOut, out) ==
    IF ~timedOut
    THEN [popen |-> Finish([r EXCEPT !.wait1 = "exited"], out), task |-> "done"]
    ELSE LET k == [r EXCEPT !.wait1 = "timeout", !.killCalls = Bump(@)] IN
         IF kOut = "ok"
         THEN [popen |-> k, task |-> "wait2"]
         ELSE [popen |-> Finish(k, out), task |-> "done"]

SetProc(c, p, res) ==
    /\ popen' = [popen EXCEPT ![c][p] = res.popen]
    /\ killTask' = [killTask EXCEPT ![c][p] = res.task]

ProcFrame == UNCHANGED <<regVars, objVars, processes, taskVars, compVars>> /\ ret' = NoRet

\* a caller puts a new subprocess.Popen (or another object) in composer.processes
AddProcess(c, p, obj, pipes) ==
    /\ c \in constructed
    /\ popen[c][p].obj = "absent"
    /\ \A q \in ProcNames : q < p => popen[c][q].obj # "absent"
    /\ popen' = [popen EXCEPT ![c][p] =
                    [NoPopen EXCEPT !.obj = obj, !.alive = (obj = "popen"), !.pipes = pipes]]
    /\ processes' = [processes EXCEPT ![c] = @ \cup {p}]
    /\ ret' = NoRet
    /\ UNCHANGED <<regVars, objVars, killTask, taskVars, compVars>>

\* the operating system: a running child exits (by itself or on a signal)
ProcessExit(c, p) ==
    /\ popen[c][p].obj = "popen"
    /\ popen[c][p].alive
    /\ popen' = [popen EXCEPT ![c][p].alive = FALSE]
    /\ UNCHANGED killTask
    /\ ProcFrame

\* the loop starts a gathered _kill_process coroutine
KillBegin(c, p) ==
    /\ killTask[c][p] = "created"
    /\ \E tOut \in CallOutcomes : \E out \in PipeOutcomes(popen[c][p]) :
          SetProc(c, p, KillStart(popen[c][p], tOut, out))
    /\ ProcFrame

\* process.wait(timeout) returns: the child has exited
Wait1Returns(c, p) ==
    /\ killTask[c][p] = "wait1"
    /\ ~popen[c][p].alive
    /\ \E out \in PipeOutcomes(popen[c][p]) :
          SetProc(c, p, AfterWait(popen[c][p], FALSE, "ok", out))
    /\ ProcFrame

\* process.wait(timeout) raises TimeoutExpired: the child is still running
Wait1Timeout(c, p) ==
    /\ killTask[c][p] = "wait1"
    /\ popen[c][p].alive
    /\ \E kOut \in CallOutcomes : \E out \in PipeOutcomes(popen[c][p]) :
          SetProc(c, p, AfterWait(popen[c][p], TRUE, kOut, out))
    /\ ProcFrame

\* composer.py 862 with 871-876: process.wait(timeout) raises another error
\* than TimeoutExpired; an except clause logs it and the pipes are closed
Wait1Raises(c, p) ==
    /\ killTask[c][p] = "wait1"
    /\ \E out \in PipeOutcomes(popen[c][p]) :
          SetProc(c, p, [popen |-> Finish([popen[c][p] EXCEPT !.wait1 = "raised"], out),
                         task |-> "done"])
    /\ ProcFrame

\* composer.py 869-876: process.wait(2.0) after kill() returns, or raises
\* TimeoutExpired, which `except Exception` catches
Wait2Ends(c, p) ==
    /\ killTask[c][p] = "wait2"
    /\ \E out \in PipeOutcomes(popen[c][p]) :
          SetProc(c, p, [popen |-> Finish(popen[c][p], out), task |-> "done"])
    /\ ProcFrame

\* ---------------------------------------------------------------- composition

\* A name is a Python string: the sequence of its characters, so that the
\* f-strings of _resolve_name_conflict are concatenations.
T == <<"t">>
Calc == <<"c", "a", "l", "c">>
Add == <<"a", "d", "d">>
\* None, and the empty string that "if resolved_name:" treats like it
None == <<>>

Digits == <<"0", "1", "2", "3", "4", "5", "6", "7", "8", "9">>
RECURSIVE str(_)
str(n) == IF n < 10 THEN <<Digits[n + 1]>> ELSE str(n \div 10) \o <<Digits[(n % 10) + 1]>>

\* f"{a}_{b}"
Join(a, b) == a \o <<"_">> \o b

\* dict.get(k, default)
Get(d, k, default) == IF k \in DOMAIN d THEN d[k] ELSE default

Categories == {"tool", "prompt", "resource"}

\* the definition that server_name supplies under name: the value stored in
\* the composed dict
Def(server_name, name, component_type) ==
    [server |-> server_name, name |-> name, type |-> component_type]

\* composer.py 656-659 and 676-679: the while loop that appends a counter
RECURSIVE Unique(_, _, _, _)
Unique(resolved_name, base, counter, existing_components) ==
    IF resolved_name \in DOMAIN existing_components
    THEN Unique(Join(base, str(counter)), base, counter + 1, existing_components)
    ELSE resolved_name

\* a bug: the prefix strategy keeps the original name
PrefixName_Unprefixed(server_name, name, existing_components) == name

\* a bug: the prefixed name is not checked against the names already there
PrefixName_NoLoop(server_name, name, existing_components) == Join(server_name, name)

\* composer.py 654-659
PrefixName(server_name, name, existing_components) ==
    Unique(Join(server_name, name), Join(server_name, name), 1, existing_components)

\* composer.py 674-679
SuffixName(server_name, name, existing_components) ==
    Unique(Join(name, server_name), Join(name, server_name), 1, existing_components)

\* composer.py 617-627: the exception raised for a conflict under "error"
ConflictError(component_type) ==
    CASE component_type = "tool" -> "MCPToolConflictError"
      [] component_type = "prompt" -> "MCPPromptConflictError"
      [] OTHER -> "MCPCompositionError"

\* a bug: a collision is not looked for, the name is used as it is
_resolve_name_conflict_NoCheck(strategy, component_type, name, server_name, existing_components, mapping, resolved) == [name |-> name, raised |-> "none", conflicts_resolved |-> resolved]

\* composer.py 594-693.  The result is the returned name, the exception raised
\* ("none" when the call returns) and conflicts_resolved after the call.
_resolve_name_conflict(strategy, component_type, name, server_name, existing_components, mapping, resolved) ==
    IF name \notin DOMAIN existing_components
    THEN [name |-> name, raised |-> "none", conflicts_resolved |-> resolved]
    ELSE CASE strategy = "error" ->
                [name |-> None, raised |-> ConflictError(component_type),
                 conflicts_resolved |-> resolved]
           [] strategy = "ignore" ->
                [name |-> None, raised |-> "none", conflicts_resolved |-> resolved]
           [] strategy = "override" ->
                [name |-> name, raised |-> "none",
                 conflicts_resolved |-> Append(resolved,
                    [type |-> "override", component_type |-> component_type,
                     name |-> name,
                     previous_source |-> Get(mapping, name, <<"u", "n", "k", "n", "o", "w", "n">>),
                     new_source |-> server_name])]
           [] strategy = "prefix" ->
                LET resolved_name == PrefixName(server_name, name, existing_components) IN
                [name |-> resolved_name, raised |-> "none",
                 conflicts_resolved |-> Append(resolved,
                    [type |-> "prefix", component_type |-> component_type,
                     original_name |-> name, resolved_name |-> resolved_name,
                     server_name |-> server_name])]
           [] strategy = "suffix" ->
                LET resolved_name == SuffixName(server_name, name, existing_components) IN
                [name |-> resolved_name, raised |-> "none",
                 conflicts_resolved |-> Append(resolved,
                    [type |-> "suffix", component_type |-> component_type,
                     original_name |-> name, resolved_name |-> resolved_name,
                     server_name |-> server_name])]
           [] OTHER -> [name |-> name, raised |-> "none", conflicts_resolved |-> resolved]

\* the composition state of composer c as one value
CompState(c) ==
    [composed |-> [k \in Categories |->
                      CASE k = "tool" -> composed_tools[c]
                        [] k = "prompt" -> composed_prompts[c]
                        [] OTHER -> composed_resources[c]],
     source_mapping |-> source_mapping[c],
     conflicts_resolved |-> conflicts_resolved[c],
     raised |-> "none"]

\* the loop shared by _compose_tools (539-550), _compose_prompts (559-570) and
\* _compose_resources (581-592), from the i-th item of the dict on; an
\* exception of _resolve_name_conflict ends it
RECURSIVE ComposeFrom(_, _, _, _, _, _)
ComposeFrom(i, st, strategy, component_type, server_name, items) ==
    IF i > Len(items) \/ st.raised # "none" THEN st
    ELSE LET name == items[i]
             r == _resolve_name_conflict(strategy, component_type, name, server_name,
                                         st.composed[component_type], st.source_mapping,
                                         st.conflicts_resolved)
             next == IF r.raised # "none" THEN [st EXCEPT !.raised = r.raised]
                     ELSE IF r.name # None
                     THEN [st EXCEPT
                             !.composed[component_type] =
                                 Put(@, r.name, Def(server_name, name, component_type)),
                             !.source_mapping = Put(@, r.name, server_name),
                             !.conflicts_resolved = r.conflicts_resolved]
                     ELSE [st EXCEPT !.conflicts_resolved = r.conflicts_resolved]
         IN ComposeFrom(i + 1, next, strategy, component_type, server_name, items)

\* composer.py 537-550
_compose_tools(st, strategy, server_name, tools) ==
    ComposeFrom(1, st, strategy, "tool", server_name, tools)

\* composer.py 552-570
_compose_prompts(st, strategy, server_name, prompts) ==
    ComposeFrom(1, st, strategy, "prompt", server_name, prompts)

\* composer.py 572-592
_compose_resources(st, strategy, server_name, resources) ==
    ComposeFrom(1, st, strategy, "resource", server_name, resources)

\* composer.py 524-535
_compose_server(st, strategy, server_name, server_info) ==
    _compose_resources(
        _compose_prompts(
            _compose_tools(st, strategy, server_name, server_info.tools),
            strategy, server_name, server_info.prompts),
        strategy, server_name, server_info.resources)

\* composer.py 733-743: the three queries read the one source_mapping dict
get_tool_source(c, tool_name) == Get(source_mapping[c], tool_name, None)
get_prompt_source(c, prompt_name) == Get(source_mapping[c], prompt_name, None)
get_resource_source(c, resource_name) == Get(source_mapping[c], resource_name, None)

\* One server is composed into composer c (the body of the loops at lines 284
\* and 497).  A dict's keys are distinct, so a server is composed once.
ComposeServer(c, server_name, server_info) ==
    /\ c \in constructed
    /\ \A i \in 1..Len(composeLog[c]) : composeLog[c][i].server # server_name
    /\ LET st == _compose_server(CompState(c), conflict_resolution[c], server_name, server_info) IN
       /\ composed_tools' = [composed_tools EXCEPT ![c] = st.composed["tool"]]
       /\ composed_prompts' = [composed_prompts EXCEPT ![c] = st.composed["prompt"]]
       /\ composed_resources' = [composed_resources EXCEPT ![c] = st.composed["resource"]]
       /\ source_mapping' = [source_mapping EXCEPT ![c] = st.source_mapping]
       /\ conflicts_resolved' = [conflicts_resolved EXCEPT ![c] = st.conflicts_resolved]
       /\ composeLog' = [composeLog EXCEPT ![c] =
              Append(@, [server |-> server_name, info |-> server_info, raised |-> st.raised])]
       /\ ret' = Ret("_compose_server", c, IF st.raised = "none" THEN "returned" ELSE "raised", TRUE)
    /\ UNCHANGED <<regVars, objVars, procVars, taskVars, conflict_resolution, batch, extVars>>

\* composer.py 445-464 with a ToolManager.  register_tools resolves the names
\* of the tools against the tools registered so far and adds its records to
\* the manager's own conflicts_resolved (tm); the composer stores each tool
\* under its resolved name (452-457) and then appends every record of the
\* manager's list to its own (460-461).  The result is the composer's state
\* with the manager's list in the field tm.
_compose_tools_async(st, tm, strategy, server_name, tools) ==
    LET r == _compose_tools([st EXCEPT !.conflicts_resolved = tm], strategy, server_name, tools) IN
    [composed |-> r.composed, source_mapping |-> r.source_mapping,
     conflicts_resolved |-> st.conflicts_resolved \o r.conflicts_resolved,
     raised |-> r.raised, tm |-> r.conflicts_resolved]

\* composer.py 432-443 for a composer with a ToolManager: one embedded server
\* is composed by compose_from_config (line 361); the strategy is not error
_compose_server_async(c, server_name, server_info) ==
    /\ c \in constructed
    /\ conflict_resolution[c] # "error"
    /\ \A i \in 1..Len(composeLog[c]) : composeLog[c][i].server # server_name
    /\ LET t == _compose_tools_async(CompState(c), tool_manager[c], conflict_resolution[c],
                                     server_name, server_info.tools)
           st == _compose_resources(
                    _compose_prompts([composed |-> t.composed, source_mapping |-> t.source_mapping,
                                      conflicts_resolved |-> t.conflicts_resolved, raised |-> t.raised],
                                     conflict_resolution[c], server_name, server_info.prompts),
                    conflict_resolution[c], server_name, server_info.resources)
       IN
       /\ composed_tools' = [composed_tools EXCEPT ![c] = st.composed["tool"]]
       /\ composed_prompts' = [composed_prompts EXCEPT ![c] = st.composed["prompt"]]
       /\ composed_resources' = [composed_resources EXCEPT ![c] = st.composed["resource"]]
       /\ source_mapping' = [source_mapping EXCEPT ![c] = st.source_mapping]
       /\ conflicts_resolved' = [conflicts_resolved EXCEPT ![c] = st.conflicts_resolved]
       /\ tool_manager' = [tool_manager EXCEPT ![c] = t.tm]
       /\ composeLog' = [composeLog EXCEPT ![c] =
              Append(@, [server |-> server_name, info |-> server_info, raised |-> st.raised])]
       /\ ret' = Ret("_compose_server_async", c, "returned", TRUE)
    /\ UNCHANGED <<regVars, objVars, procVars, taskVars, conflict_resolution, batch,
                   run, proxy, stream, supervised, oauth>>

\* a bug: no loop catches the exception of one server
CatchesPerServer_Never(entry) == FALSE

\* the entry points whose loop catches the exception of one server (lines
\* 283-289 and 356-366) and goes on
CatchesPerServer(entry) == entry \in {"compose_from_pyproject", "compose_from_config"}

\* A composition call starts on composer c.  compose_from_config first starts
\* the ProcessManager, when there is one (lines 343-344).
BeginBatch(c, entry, selected) ==
    /\ c \in constructed
    /\ batch[c].state = "idle"
    /\ batch' = [batch EXCEPT ![c] = [entry |-> entry, state |-> "running",
                                      selected |-> selected, composition_errors |-> <<>>]]
    /\ process_manager' = [process_manager EXCEPT ![c] =
          IF entry = "compose_from_config" /\ @ # "None" THEN "started" ELSE @]
    /\ ret' = NoRet
    /\ UNCHANGED <<regVars, constructed, _shutting_down, procVars, taskVars, extVars,
                   conflict_resolution, composed_tools, composed_prompts,
                   composed_resources, source_mapping, conflicts_resolved, composeLog>>

\* The next of the selected servers is composed: one turn of the loop at lines
\* 282-289, 351-366 or 496-497 (compose_from_config with its embedded servers
\* and without a ToolManager).  An exception ends compose_servers; the two
\* other entry points record it in composition_errors and go on.
BatchServer(c, server_name, server_info, discovery) ==
    /\ batch[c].state = "running"
    /\ discovery = "raises" => batch[c].entry = "compose_from_config"
    /\ server_name \in batch[c].selected
    /\ discovery = "raises" => server_info = [tools |-> <<>>, prompts |-> <<>>, resources |-> <<>>]
    /\ \A i \in 1..Len(composeLog[c]) : composeLog[c][i].server # server_name
    /\ LET st == IF discovery = "raises"
                 THEN [CompState(c) EXCEPT !.raised = "MCPDiscoveryError"]
                 ELSE _compose_server(CompState(c), conflict_resolution[c],
                                      server_name, server_info)
           failed == st.raised # "none"
       IN
       /\ composed_tools' = [composed_tools EXCEPT ![c] = st.composed["tool"]]
       /\ composed_prompts' = [composed_prompts EXCEPT ![c] = st.composed["prompt"]]
       /\ composed_resources' = [composed_resources EXCEPT ![c] = st.composed["resource"]]
       /\ source_mapping' = [source_mapping EXCEPT ![c] = st.source_mapping]
       /\ conflicts_resolved' = [conflicts_resolved EXCEPT ![c] = st.conflicts_resolved]
       /\ composeLog' = [composeLog EXCEPT ![c] =
              Append(@, [server |-> server_name, info |-> server_info, raised |-> st.raised])]
       /\ IF failed /\ ~CatchesPerServer(batch[c].entry)
          THEN /\ batch' = [batch EXCEPT ![c].state = "raised"]
               /\ ret' = Ret(batch[c].entry, c, "raised", TRUE)
          ELSE /\ batch' = [batch EXCEPT ![c].composition_errors =
                                IF failed THEN Append(@, server_name) ELSE @]
               /\ ret' = NoRet
    /\ UNCHANGED <<regVars, objVars, procVars, taskVars, extVars, conflict_resolution>>

\* Every server of the batch has had its turn: lines 304-312, 383-391 and 499
EndBatch(c) ==
    /\ batch[c].state = "running"
    /\ \A s \in batch[c].selected : \E i \in 1..Len(composeLog[c]) : composeLog[c][i].server = s
    /\ LET outcome == IF batch[c].composition_errors # <<>> THEN "raised" ELSE "returned" IN
       /\ batch' = [batch EXCEPT ![c].state = outcome]
       /\ ret' = Ret(batch[c].entry, c, outcome, TRUE)
    /\ UNCHANGED <<regVars, objVars, procVars, taskVars, extVars, conflict_resolution,
                   composed_tools, composed_prompts, composed_resources,
                   source_mapping, conflicts_resolved, composeLog>>

\* ------------------------------------------------------------ cli.run_server
\* the servers of the configuration file: proxied stdio, SSE and HTTP
RunStdio == {Calc, <<"a">>}
RunSse == {<<"e">>}
RunHttp == {<<"h">>, <<"e", "_", "t">>}
Configured(phase) ==
    CASE phase = "stdio" -> RunStdio [] phase = "sse" -> RunSse [] phase = "http" -> RunHttp
      [] OTHER -> {}
\* the phase after server_name's turn: the loop goes on, or the next loop starts
AfterTurn(phase, server_name) ==
    IF Configured(phase) \subseteq run.done \cup {server_name}
    THEN (CASE phase = "stdio" -> "sse" [] phase = "sse" -> "http" [] OTHER -> "serving")
    ELSE phase

\* cli.py 283-304: the composer has been made with a ProcessManager, which is
\* started inside the try
RunStart(c) ==
    /\ run.pc = "none"
    /\ c \in constructed
    /\ process_manager[c] = "created"
    /\ composeLog[c] = <<>>
    /\ process_manager' = [process_manager EXCEPT ![c] = "started"]
    /\ run' = [run EXCEPT !.pc = "stdio"]
    /\ ret' = NoRet
    /\ UNCHANGED <<regVars, constructed, _shutting_down, procVars, taskVars,
                   conflict_resolution, composed_tools, composed_prompts, composed_resources,
                   source_mapping, conflicts_resolved, composeLog, batch, proxy, stream, supervised, tool_manager, oauth>>

\* cli.py 323-345: one turn of the loop over the stdio servers.  There is no
\* try in this loop: an exception of add_process (line 334) or of
\* discover_tools (line 342) leaves the loop and the try for the finally.
StdioServer(c, server_name, outcome) ==
    /\ run.pc = "stdio"
    /\ server_name \in RunStdio \ run.done
    /\ run' = [run EXCEPT
          !.done = @ \cup {server_name},
          !.started = IF outcome = "add_process raises" THEN @ ELSE @ \cup {server_name},
          !.failed = IF outcome = "ok" THEN @ ELSE @ \cup {server_name},
          !.outcome = IF outcome = "ok" THEN @ ELSE "raised",
          !.pc = IF outcome = "ok" THEN AfterTurn("stdio", server_name) ELSE "finally"]
    /\ ret' = NoRet
    /\ UNCHANGED <<regVars, objVars, procVars, taskVars, conflict_resolution, composed_tools,
                   composed_prompts, composed_resources, source_mapping, conflicts_resolved,
                   composeLog, batch, proxy, stream, supervised, tool_manager, oauth>>

\* cli.py 383-441 and 535-582: the tools of a remote server are registered
\* under f"{server_config.name}_{tool.name}", without conflict resolution
RECURSIVE RegisterRemote(_, _, _, _)
RegisterRemote(i, st, server_name, tools) ==
    IF i > Len(tools) THEN st
    ELSE RegisterRemote(i + 1,
            [st EXCEPT !.composed["tool"] =
                           Put(@, Join(server_name, tools[i]), Def(server_name, tools[i], "tool")),
                       !.source_mapping = Put(@, Join(server_name, tools[i]), server_name)],
            server_name, tools)

\* cli.py 364-461 (SSE) and 476-591 (HTTP): one turn of a loop over the remote
\* servers.  The try inside the loop catches every exception of the turn; a
\* late one (of transport.disconnect(), line 587) comes after the registration.
\* An HTTP turn first makes a connected transport (line 491; "connect raises"
\* when that fails); disconnect() is called on it at line 587, after the
\* session's block, and so not when the block raises.
RemoteServer(c, phase, server_name, tools, outcome) ==
    /\ run.pc = phase
    /\ phase \in {"sse", "http"}
    /\ outcome \in {"ok", "connect raises", "raises", "raises late"}
    /\ outcome \in {"connect raises", "raises late"} => phase = "http"
    /\ server_name \in Configured(phase) \ run.done
    /\ LET st == IF outcome \in {"connect raises", "raises"} THEN CompState(c)
                 ELSE RegisterRemote(1, CompState(c), server_name, tools) IN
       /\ composed_tools' = [composed_tools EXCEPT ![c] = st.composed["tool"]]
       /\ source_mapping' = [source_mapping EXCEPT ![c] = st.source_mapping]
    /\ run' = [run EXCEPT
          !.done = @ \cup {server_name},
          !.failed = IF outcome = "ok" THEN @ ELSE @ \cup {server_name},
          !.connected = IF phase = "http" /\ outcome = "raises" THEN @ \cup {server_name} ELSE @,
          !.pc = AfterTurn(phase, server_name)]
    /\ ret' = NoRet
    /\ UNCHANGED <<regVars, objVars, procVars, taskVars, conflict_resolution,
                   composed_prompts, composed_resources, conflicts_resolved, composeLog, batch, proxy, stream, supervised, tool_manager, oauth>>

\* cli.py 595-755: the unified server runs until it is interrupted
Serve(c) ==
    /\ run.pc = "serving"
    /\ run' = [run EXCEPT !.served = TRUE, !.pc = "finally", !.outcome = "returned"]
    /\ ret' = NoRet
    /\ UNCHANGED <<regVars, objVars, procVars, taskVars, conflict_resolution, composed_tools,
                   composed_prompts, composed_resources, source_mapping, conflicts_resolved,
                   composeLog, batch, proxy, stream, supervised, tool_manager, oauth>>

\* cli.py 757-760: the finally stops the ProcessManager and with it every
\* server process that was started
RunFinally(c) ==
    /\ run.pc = "finally"
    /\ process_manager' = [process_manager EXCEPT ![c] = "stopped"]
    /\ run' = [run EXCEPT !.pc = "ended"]
    /\ ret' = Ret("run_server", c, run.outcome, TRUE)
    /\ UNCHANGED <<regVars, constructed, _shutting_down, procVars, taskVars,
                   conflict_resolution, composed_tools, composed_prompts, composed_resources,
                   source_mapping, conflicts_resolved, composeLog, batch, proxy, stream, supervised, tool_manager, oauth>>

\* ------------------------------------------------------------------ ToolProxy
\* (spec section 4.2 and the cancellation/timeout paragraph of section 5)
CallIds == 1..MaxCalls
ProxyFrame == UNCHANGED <<regVars, objVars, procVars, taskVars, ret, conflict_resolution, composed_tools, composed_prompts, composed_resources, source_mapping, conflicts_resolved, composeLog, batch, run, stream, supervised, tool_manager, oauth>>

\* call: the request takes the next id, is written to the process's stdin and
\* becomes pending
call ==
    /\ proxy.open
    /\ proxy.next_id \in CallIds
    /\ proxy' = [proxy EXCEPT !.next_id = @ + 1,
                              !.pending = @ \cup {proxy.next_id},
                              !.stdin = @ \cup {proxy.next_id},
                              !.outcome[proxy.next_id] = [kind |-> "waiting", response_id |-> 0]]
    /\ ProxyFrame

\* the server answers one of the requests it has read, in any order: the
\* response carries the request's id
ServerResponds(k) ==
    /\ proxy.open
    /\ k \in proxy.stdin
    /\ proxy' = [proxy EXCEPT !.stdin = @ \ {k}, !.stdout = @ \cup {k}]
    /\ ProxyFrame

\* a bug: a response goes to the oldest pending request
MatchPending_Oldest(k) ==
    IF proxy.pending = {} THEN {}
    ELSE {CHOOSE j \in proxy.pending : \A j2 \in proxy.pending : j <= j2}

\* the pending request that a response with id k is matched to, if any
MatchPending(k) == proxy.pending \cap {k}

\* a response is read from stdout and given to the pending request it
\* matches; a response that matches none is dropped
ReadResponse(k) ==
    /\ proxy.open
    /\ k \in proxy.stdout
    /\ proxy' = [proxy EXCEPT
          !.stdout = @ \ {k},
          !.pending = @ \ MatchPending(k),
          !.outcome = [j \in CallIds |->
              IF j \in MatchPending(k) THEN [kind |-> "result", response_id |-> k] ELSE @[j]]]
    /\ ProxyFrame

\* a bug: a timeout tears the transport down
TransportAfterTimeout_Closed == FALSE

\* what a timeout leaves of the transport
TransportAfterTimeout == proxy.open

\* the timeout of call k expires: its entry is removed, the caller gets a
\* timeout failure
TimeoutExpires(k) ==
    /\ k \in proxy.pending
    /\ proxy' = [proxy EXCEPT
          !.pending = @ \ {k},
          !.outcome[k] = [kind |-> "timeout", response_id |-> 0],
          !.open = TransportAfterTimeout]
    /\ ProxyFrame

\* the process dies: every call in flight fails with "transport closed"
TransportCloses ==
    /\ proxy.open
    /\ proxy' = [proxy EXCEPT
          !.open = FALSE,
          !.pending = {},
          !.outcome = [j \in CallIds |->
              IF j \in proxy.pending THEN [kind |-> "transport closed", response_id |-> 0]
              ELSE @[j]]]
    /\ ProxyFrame

\* ------------------------------------------------------- HttpStreamTransport
\* (spec section 4.3; tests/test_http_transport.py)
NL == "\n"
ExtFrame == UNCHANGED <<regVars, objVars, procVars, taskVars, ret, conflict_resolution, composed_tools, composed_prompts, composed_resources, source_mapping, conflicts_resolved, composeLog, batch, run, proxy, tool_manager, oauth>>

\* json.loads of one line: the lines of the model are decimal numbers
RECURSIVE loads(_)
loads(line) ==
    IF Len(line) = 0 THEN 0
    ELSE 10 * loads(SubSeq(line, 1, Len(line) - 1))
         + (CHOOSE d \in 0..9 : Digits[d + 1] = line[Len(line)])

\* a bug: one call takes one line out of the buffer and no more
_process_buffer_OneLine(st) ==
    IF \A i \in 1..Len(st._buffer) : st._buffer[i] # NL THEN st
    ELSE LET i == CHOOSE i \in 1..Len(st._buffer) :
                     st._buffer[i] = NL /\ \A j \in 1..(i - 1) : st._buffer[j] # NL
             line == SubSeq(st._buffer, 1, i - 1)
         IN [st EXCEPT !._buffer = SubSeq(@, i + 1, Len(@)),
                       !._message_queue = IF line = <<>> THEN @ ELSE Append(@, loads(line)),
                       !.enqueued = IF line = <<>> THEN @ ELSE Append(@, loads(line))]

\* a bug: a buffer without a newline is parsed as if its line were complete
_process_buffer_Eager(st) ==
    IF st._buffer # <<>> /\ \A i \in 1..Len(st._buffer) : st._buffer[i] # NL
    THEN [st EXCEPT !._message_queue = Append(@, loads(st._buffer)),
                    !.enqueued = Append(@, loads(st._buffer))]
    ELSE _process_buffer_OneLine(st)

\* _process_buffer: while the buffer holds a newline, the line before the
\* first newline is taken out, parsed and put in the queue; an empty line
\* gives no message
RECURSIVE _process_buffer(_)
_process_buffer(st) ==
    IF \A i \in 1..Len(st._buffer) : st._buffer[i] # NL THEN st
    ELSE LET i == CHOOSE i \in 1..Len(st._buffer) :
                     st._buffer[i] = NL /\ \A j \in 1..(i - 1) : st._buffer[j] # NL
             line == SubSeq(st._buffer, 1, i - 1)
         IN _process_buffer(
              [st EXCEPT !._buffer = SubSeq(@, i + 1, Len(@)),
                         !._message_queue = IF line = <<>> THEN @ ELSE Append(@, loads(line)),
                         !.enqueued = IF line = <<>> THEN @ ELSE Append(@, loads(line))])

\* connect()
Connect(reconnect_on_failure, max_reconnect_attempts) ==
    /\ stream.state = "new"
    /\ stream' = [stream EXCEPT !.state = "connected",
                                !.reconnect_on_failure = reconnect_on_failure,
                                !.max_reconnect_attempts = max_reconnect_attempts]
    /\ ExtFrame /\ UNCHANGED supervised

\* one read of the streaming response: the characters read are added to the
\* buffer, and the buffer is processed
ReadChunk(chunk) ==
    /\ stream.state = "connected"
    /\ stream.reads < MaxReads
    /\ Len(stream._buffer) + Len(chunk) <= MaxLine
    /\ stream' = _process_buffer([stream EXCEPT !._buffer = @ \o chunk,
                                                !.arrived = @ \o chunk,
                                                !.reads = @ + 1])
    /\ ExtFrame /\ UNCHANGED supervised

\* receive(): the oldest message of the queue
Receive ==
    /\ stream._message_queue # <<>>
    /\ stream' = [stream EXCEPT !._message_queue = Tail(@),
                                !.dequeued = Append(@, Head(stream._message_queue))]
    /\ ExtFrame /\ UNCHANGED supervised

\* a bug: one attempt more than max_reconnect_attempts
MayRetry_OneMore == stream.reconnect_on_failure /\ stream._reconnect_count <= stream.max_reconnect_attempts

\* the retry condition after a transport-level failure
MayRetry == stream.reconnect_on_failure /\ stream._reconnect_count < stream.max_reconnect_attempts

\* a transport-level failure, of the stream or of a reconnection attempt:
\* another attempt is made if the budget allows it, else the failure is terminal
TransportFails ==
    /\ stream.state \in {"connected", "reconnecting"}
    /\ stream' = [stream EXCEPT
          !.state = IF MayRetry THEN "reconnecting" ELSE "failed",
          !._reconnect_count = IF MayRetry THEN @ + 1 ELSE @]
    /\ ExtFrame /\ UNCHANGED supervised

\* a reconnection attempt succeeds
Reconnected ==
    /\ stream.state = "reconnecting"
    /\ stream' = [stream EXCEPT !.state = "connected", !._reconnect_count = 0]
    /\ ExtFrame /\ UNCHANGED supervised

\* --------------------------------------------------- Process / ProcessManager
\* (spec sections 3 and 4.1; tests/test_shutdown.py)
Stoppers == 1..MaxStops

\* a bug: stop() acts whatever state it finds
StopActs_AnyState == supervised.state # "none"

\* stop() acts on a running process; in any other state the caller does nothing
StopActs == supervised.state = "Running"

\* a bug: a crashed process is restarted whatever its policy
RestartEnabled_Always == supervised.last_exit = "unexpected"

\* the auto-restart policy applies to an unexpected exit of a running process
RestartEnabled == supervised.auto_restart /\ supervised.last_exit = "unexpected"

\* a bug: the restart is not counted
CountRestart_Forgotten(n) == n

\* the restart count after one more restart
CountRestart(n) == n + 1

\* add(name, command, env, autoStart) with autoStart: the subprocess is spawned
add_process(auto_restart) ==
    /\ supervised.state = "none"
    /\ supervised' = [supervised EXCEPT !.state = "Starting", !.auto_restart = auto_restart]
    /\ ExtFrame /\ UNCHANGED stream

\* the spawned subprocess is up
Started ==
    /\ supervised.state = "Starting"
    /\ supervised' = [supervised EXCEPT !.state = "Running"]
    /\ ExtFrame /\ UNCHANGED stream

\* the monitor sees the subprocess exit while nobody asked it to stop
UnexpectedExit ==
    /\ supervised.state = "Running"
    /\ supervised.auto_restart => supervised.restart_count < MaxRestarts
    /\ supervised' = [supervised EXCEPT !.state = "Crashed", !.last_exit = "unexpected"]
    /\ ExtFrame /\ UNCHANGED stream

\* auto-restart: the crashed process is started again
AutoRestart ==
    /\ supervised.state = "Crashed"
    /\ RestartEnabled
    /\ supervised' = [supervised EXCEPT !.state = "Starting",
                                        !.restart_count = CountRestart(@)]
    /\ ExtFrame /\ UNCHANGED stream

\* stop(timeout), up to its wait: the graceful termination signal is sent
stop_process(k) ==
    /\ supervised.state # "none"
    /\ supervised.stop[k] = "idle"
    /\ supervised' =
         IF StopActs
         THEN [supervised EXCEPT !.state = "Stopping", !.terminate_sent = @ + 1,
                                 !.stop[k] = "waiting"]
         ELSE [supervised EXCEPT !.stop[k] = "done"]
    /\ ExtFrame /\ UNCHANGED stream

\* stop(timeout): the subprocess is still alive after the timeout and is killed
GraceTimeout(k) ==
    /\ supervised.stop[k] = "waiting"
    /\ supervised' = [supervised EXCEPT !.kill_sent = @ + 1, !.stop[k] = "killing"]
    /\ ExtFrame /\ UNCHANGED stream

\* stop(timeout): the subprocess has exited
StopExited(k) ==
    /\ supervised.stop[k] \in {"waiting", "killing"}
    /\ supervised' = [supervised EXCEPT !.state = "Stopped", !.last_exit = "stopped",
                                        !.stop[k] = "done"]
    /\ ExtFrame /\ UNCHANGED stream

\* stop(timeout): the termination failed
StopFailed(k) ==
    /\ supervised.stop[k] \in {"waiting", "killing"}
    /\ supervised' = [supervised EXCEPT !.state = "Crashed", !.last_exit = "failed termination",
                                        !.stop[k] = "done"]
    /\ ExtFrame /\ UNCHANGED stream

\* ------------------------------------------------------------ specifications

\* the dispositions CPython starts with: SIGTERM is SIG_DFL and SIGINT is
\* signal.default_int_handler
StartupHandler == [s \in Signals |-> IF s = "SIGTERM" THEN "SIG_DFL" ELSE "default_int_handler"]

\* ------------------------------------------------------------------ OAuth routes
\* (api/routes/oauth.py)
\* secrets.token_urlsafe(32) gives a value that was not given before: the
\* state values are numbered in the order of their issue
OAuthFrame == UNCHANGED <<regVars, objVars, procVars, taskVars, ret, conflict_resolution, composed_tools, composed_prompts, composed_resources, source_mapping, conflicts_resolved, composeLog, batch, run, proxy, stream, supervised, tool_manager>>

\* dict.get: the store keeps the session
pop_Get(d, k) == d
\* dict.pop(k, None): what is left of the dict (oauth.py 225)
pop(d, k) == [x \in (DOMAIN d) \ {k} |-> d[x]]

\* oauth.py 41-90
configure_oauth ==
    /\ oauth' = [oauth EXCEPT !._oauth_config = "set"]
    /\ OAuthFrame

\* time passes
Tick ==
    /\ oauth.now < MaxClock
    /\ oauth' = [oauth EXCEPT !.now = @ + 1]
    /\ OAuthFrame

\* oauth.py 98-163: GET /authorize
authorize(redirect_uri) ==
    /\ oauth.issued < MaxStates
    /\ oauth' =
         IF oauth._oauth_config = "None"
         THEN [oauth EXCEPT !.last = [op |-> "authorize", state |-> 0, status |-> 500, detail |-> "OAuth not configured"]]
         ELSE IF ~redirect_uri
         THEN [oauth EXCEPT !.last = [op |-> "authorize", state |-> 0, status |-> 400, detail |-> "redirect_uri is required"]]
         ELSE LET server_state == oauth.issued + 1 IN
              [oauth EXCEPT !._oauth_state_store = Put(@, server_state, [created_at |-> oauth.now]),
                            !.issued = server_state,
                            !.last = [op |-> "authorize", state |-> server_state, status |-> 307, detail |-> "redirect"]]
    /\ OAuthFrame

\* oauth.py 166-270: GET /oauth/callback up to the request of the token, where
\* the handler is suspended (line 271); httpx is installed.  state = 0 stands
\* for a request without a state parameter.
oauth_callback(error, code, state) ==
    /\ state \in 1..MaxStates => oauth.exchanges[state] < CounterCap
    /\ LET Answer(status, detail) == [op |-> "oauth_callback", state |-> state, status |-> status, detail |-> detail]
           store == oauth._oauth_state_store
       IN oauth' =
         IF oauth._oauth_config = "None"
         THEN [oauth EXCEPT !.last = Answer(500, "OAuth not configured")]
         ELSE IF error
         THEN [oauth EXCEPT !.last = Answer(400, "Authentication Error")]
         ELSE IF ~code \/ state = 0
         THEN [oauth EXCEPT !.last = Answer(400, "Invalid Request")]
         ELSE IF state \notin DOMAIN store
         THEN [oauth EXCEPT !._oauth_state_store = pop(store, state),
                            !.last = Answer(400, "Invalid or Expired Session")]
         ELSE IF oauth.now - store[state].created_at > 1
         THEN [oauth EXCEPT !._oauth_state_store = pop(store, state),
                            !.looked = @ \cup {state},
                            !.last = Answer(400, "Session Expired")]
         ELSE [oauth EXCEPT !._oauth_state_store = pop(store, state),
                            !.looked = @ \cup {state},
                            !.exchanging[state] = @ + 1,
                            !.exchanges[state] = @ + 1,
                            !.last = Answer(0, "token requested")]
    /\ OAuthFrame

\* oauth.py 271-340: the token endpoint has answered (or the request has
\* failed); the handler redirects to the agent's callback or answers 500
TokenResponse(state, token) ==
    /\ oauth.exchanging[state] > 0
    /\ oauth' = [oauth EXCEPT
          !.exchanging[state] = @ - 1,
          !.last = IF token
                   THEN [op |-> "oauth_callback", state |-> state, status |-> 307, detail |-> "redirect"]
                   ELSE [op |-> "oauth_callback", state |-> state, status |-> 500, detail |-> "Authentication Failed"]]
    /\ OAuthFrame

InitFrom(h) ==
    /\ _active_composers = {}
    /\ _original_sigterm_handler = "None"
    /\ _original_sigint_handler = "None"
    /\ _signal_handlers_installed = FALSE
    /\ handler = h
    /\ initialHandler = handler
    /\ offMain = FALSE
    /\ constructed = {}
    /\ _shutting_down = [c \in Composers |-> FALSE]
    /\ process_manager = [c \in Composers |-> "None"]
    /\ processes = [c \in Composers |-> {}]
    /\ popen = [c \in Composers |-> [p \in ProcNames |-> NoPopen]]
    /\ killTask = [c \in Composers |-> [p \in ProcNames |-> "idle"]]
    /\ sched = [c \in Composers |-> 0]
    /\ inflight = [c \in Composers |-> [k \in Kinds |-> [ph \in Phases |-> 0]]]
    /\ teardownRuns = [c \in Composers |-> 0]
    /\ pmStopCalls = [c \in Composers |-> 0]
    /\ unregisterCalls = [c \in Composers |-> 0]
    /\ ret = NoRet
    /\ conflict_resolution = [c \in Composers |-> DefaultStrategy]
    /\ composed_tools = [c \in Composers |-> EmptyDict]
    /\ composed_prompts = [c \in Composers |-> EmptyDict]
    /\ composed_resources = [c \in Composers |-> EmptyDict]
    /\ source_mapping = [c \in Composers |-> EmptyDict]
    /\ conflicts_resolved = [c \in Composers |-> <<>>]
    /\ composeLog = [c \in Composers |-> <<>>]
    \* no composition call is in progress
    /\ batch = [c \in Composers |-> [entry |-> "none", state |-> "idle", selected |-> {}, composition_errors |-> <<>>]]
    \* run_server has not been called
    /\ run = [pc |-> "none", done |-> {}, started |-> {}, failed |-> {}, served |-> FALSE, outcome |-> "none", connected |-> {}]
    /\ proxy = [next_id |-> 1, pending |-> {}, stdin |-> {}, stdout |-> {}, outcome |-> [k \in CallIds |-> [kind |-> "none", response_id |-> 0]], open |-> TRUE]
    /\ stream = [state |-> "new", reconnect_on_failure |-> FALSE, max_reconnect_attempts |-> 0, _reconnect_count |-> 0, _buffer |-> <<>>, _message_queue |-> <<>>, arrived |-> <<>>, reads |-> 0, enqueued |-> <<>>, dequeued |-> <<>>]
    /\ supervised = [state |-> "none", auto_restart |-> FALSE, restart_count |-> 0, last_exit |-> "none", terminate_sent |-> 0, kill_sent |-> 0, stop |-> [k \in Stoppers |-> "idle"]]
    /\ tool_manager = [c \in Composers |-> <<>>]
    \* oauth.py 37-38 (nothing configured, empty store); exchanging counts, per
    \* state, the callbacks suspended in the token exchange; exchanges counts the
    \* token exchanges begun and looked holds the states whose session a callback
    \* has taken from the store
    /\ oauth = [_oauth_config |-> "None", _oauth_state_store |-> <<>>, issued |-> 0, now |-> 0, exchanging |-> [s \in 1..MaxStates |-> 0], exchanges |-> [s \in 1..MaxStates |-> 0], looked |-> {}, last |-> [op |-> "none", state |-> 0, status |-> 0, detail |-> "none"]]

Init == InitFrom(StartupHandler)
\* the handlers another library of the process may have put in place before
\* the first composer is constructed: none, or one for SIGTERM that was not
\* installed from Python
InitAnyHandler == \E h \in {StartupHandler, [StartupHandler EXCEPT !["SIGTERM"] = "C_handler"]} : InitFrom(h)

\* the registry with several composers, none of which tracks a subprocess
Next ==
    \/ \E c \in Composers, usePM \in BOOLEAN, onMain \in BOOLEAN :
          Construct(c, DefaultStrategy, usePM, onMain)
    \/ \E c \in Composers : Start(c)
    \/ \E c \in Composers, onMain \in BOOLEAN : StopCall(c, onMain)
    \/ \E c \in Composers : ShutdownCall(c)
    \/ \E sig \in Signals, loop \in {"running", "none", "closed"} : Signal(sig, loop)
    \/ \E c \in Composers : RunScheduled(c)
    \/ \E c \in Composers, k \in Kinds : PMStopReturns(c, k)
    \/ \E c \in Composers, k \in Kinds : PMStopRaises(c, k)

Spec == InitAnyHandler /\ [][Next]_vars

\* one composer that tracks subprocesses without pipes (stdout=DEVNULL), with
\* every way of calling its shutdown; the signals arrive while the loop runs
TheComposer == CHOOSE c \in Composers : \A d \in Composers : c <= d

ShutdownNext ==
    \/ \E usePM \in BOOLEAN, onMain \in BOOLEAN :
          Construct(TheComposer, DefaultStrategy, usePM, onMain)
    \/ Start(TheComposer)
    \/ \E onMain \in BOOLEAN : StopCall(TheComposer, onMain)
    \/ ShutdownCall(TheComposer)
    \/ \E sig \in Signals : Signal(sig, "running")
    \/ RunScheduled(TheComposer)
    \/ \E k \in Kinds : PMStopReturns(TheComposer, k)
    \/ \E k \in Kinds : PMStopRaises(TheComposer, k)
    \/ \E p \in ProcNames, obj \in {"popen", "nopoll"} : AddProcess(TheComposer, p, obj, NoPipes)
    \/ \E p \in ProcNames : ProcessExit(TheComposer, p)
    \/ \E p \in ProcNames : KillBegin(TheComposer, p)
    \/ \E p \in ProcNames : Wait1Returns(TheComposer, p)
    \/ \E p \in ProcNames : Wait1Timeout(TheComposer, p)
    \/ \E p \in ProcNames : Wait1Raises(TheComposer, p)
    \/ \E p \in ProcNames : Wait2Ends(TheComposer, p)
    \/ \E k \in Kinds : GatherDone(TheComposer, k)

SpecShutdown == Init /\ [][ShutdownNext]_vars

\* one composer and one subprocess, with every combination of pipes
TheProc == CHOOSE p \in ProcNames : \A q \in ProcNames : p <= q

KillNext ==
    \/ Construct(TheComposer, DefaultStrategy, FALSE, TRUE)
    \/ \E pipes \in [PipeSet -> {"none", "open"}] : AddProcess(TheComposer, TheProc, "popen", pipes)
    \/ ShutdownCall(TheComposer)
    \/ ProcessExit(TheComposer, TheProc)
    \/ KillBegin(TheComposer, TheProc)
    \/ Wait1Returns(TheComposer, TheProc)
    \/ Wait1Timeout(TheComposer, TheProc)
    \/ Wait1Raises(TheComposer, TheProc)
    \/ Wait2Ends(TheComposer, TheProc)
    \/ GatherDone(TheComposer, "shutdown")

SpecKill == Init /\ [][KillNext]_vars

\* one composer, every strategy, and two servers that export their components
\* in every order
ToolNames == {T, <<"b", "_", "t">>, <<"t", "_", "b">>}
Range(q) == {q[i] : i \in DOMAIN q}
\* the key orders of the dicts with at most n keys from S
Dicts(S, n) ==
    {q \in UNION {[1..k -> S] : k \in 0..n} : Cardinality(Range(q)) = Len(q)}

ComposeNext ==
    \/ \E strategy \in Strategies : Construct(TheComposer, strategy, FALSE, TRUE)
    \/ \E server_name \in {<<"a">>, <<"b">>}, server_info \in [tools : Dicts(ToolNames, MaxTools), prompts : Dicts({T}, 1), resources : Dicts({T}, 1)] :
          ComposeServer(TheComposer, server_name, server_info)

SpecCompose == Init /\ [][ComposeNext]_vars

\* one composer, every strategy and every entry point, and a batch of up to
\* three servers; "a_b" with tool "t" and "a" with tool "b_t" make the same
\* prefixed name
BatchServerNames == {<<"a">>, <<"b">>, <<"a", "_", "b">>}
BatchToolNames == {T, <<"b", "_", "t">>}

BatchNext ==
    \/ \E strategy \in Strategies : Construct(TheComposer, strategy, FALSE, TRUE)
    \/ \E entry \in {"compose_servers", "compose_from_pyproject", "compose_from_config"}, selected \in SUBSET BatchServerNames :
          BeginBatch(TheComposer, entry, selected)
    \/ \E server_name \in BatchServerNames, server_info \in [tools : Dicts(BatchToolNames, MaxTools), prompts : Dicts({T}, 1), resources : {<<>>}],
          discovery \in {"ok", "raises"} :
          BatchServer(TheComposer, server_name, server_info, discovery)
    \/ EndBatch(TheComposer)

SpecBatch == Init /\ [][BatchNext]_vars

\* one composer, and the servers "calc" and "a" exporting "add" and "t"

CalcNext ==
    \/ \E strategy \in Strategies : Construct(TheComposer, strategy, FALSE, TRUE)
    \/ \E server_name \in {Calc, <<"a">>},
          server_info \in [tools : Dicts({Add, T}, MaxTools), prompts : Dicts({Add}, 1), resources : {<<>>}] :
          ComposeServer(TheComposer, server_name, server_info)

SpecCalc == Init /\ [][CalcNext]_vars

\* one composer with a ToolManager, every strategy but error, and the embedded
\* servers of compose_from_config
ManagerNext ==
    \/ \E strategy \in Strategies : Construct(TheComposer, strategy, FALSE, TRUE)
    \/ \E server_name \in BatchServerNames, server_info \in [tools : Dicts(BatchToolNames, MaxTools), prompts : Dicts({T}, 1), resources : {<<>>}] :
          _compose_server_async(TheComposer, server_name, server_info)

SpecManager == Init /\ [][ManagerNext]_vars

\* the OAuth routes under any order of requests, with callbacks that carry
\* any state value, issued or not
OAuthNext ==
    \/ configure_oauth
    \/ Tick
    \/ \E redirect_uri \in BOOLEAN : authorize(redirect_uri)
    \/ \E error \in BOOLEAN, code \in BOOLEAN, state \in 0..MaxStates : oauth_callback(error, code, state)
    \/ \E state \in 1..MaxStates, token \in BOOLEAN : TokenResponse(state, token)

SpecOAuth == Init /\ [][OAuthNext]_vars

\* run_server with two stdio servers, one SSE server and one HTTP server
RunNext ==
    \/ \E strategy \in Strategies : Construct(TheComposer, strategy, TRUE, TRUE)
    \/ RunStart(TheComposer)
    \/ \E server_name \in RunStdio, outcome \in {"ok", "add_process raises", "discover_tools raises"} :
          StdioServer(TheComposer, server_name, outcome)
    \/ \E phase \in {"sse", "http"}, server_name \in RunSse \cup RunHttp, tools \in Dicts({Add, T, <<"t", "_", "t">>}, MaxTools),
          outcome \in {"ok", "connect raises", "raises", "raises late"} :
          RemoteServer(TheComposer, phase, server_name, tools, outcome)
    \/ Serve(TheComposer)
    \/ RunFinally(TheComposer)

SpecRun == Init /\ [][RunNext]_vars

\* one ToolProxy and its server process
ProxyNext ==
    \/ call
    \/ \E k \in CallIds : ServerResponds(k)
    \/ \E k \in CallIds : ReadResponse(k)
    \/ \E k \in CallIds : TimeoutExpires(k)
    \/ TransportCloses

SpecProxy == Init /\ [][ProxyNext]_vars

\* one transport, and the reads of a stream of the characters "1" and newline
StreamNext ==
    \/ \E reconnect_on_failure \in BOOLEAN, max_reconnect_attempts \in 0..MaxAttempts :
          Connect(reconnect_on_failure, max_reconnect_attempts)
    \/ \E chunk \in UNION {[1..n -> {"1", NL}] : n \in 1..MaxChunk} : ReadChunk(chunk)
    \/ Receive
    \/ TransportFails
    \/ Reconnected

SpecStream == Init /\ [][StreamNext]_vars

\* the supervised process
ProcessNext ==
    \/ \E auto_restart \in BOOLEAN : add_process(auto_restart)
    \/ Started
    \/ UnexpectedExit
    \/ AutoRestart
    \/ \E k \in Stoppers : stop_process(k)
    \/ \E k \in Stoppers : GraceTimeout(k)
    \/ \E k \in Stoppers : StopExited(k)
    \/ \E k \in Stoppers : StopFailed(k)
SpecProcess == Init /\ [][ProcessNext]_vars /\ WF_vars(AutoRestart)

\* ------------------------------------------------------------------ claims

StopEnded == ret.op = "stop" /\ ret.outcome \in {"returned", "skipped"}

\* C1: for any composer, under every interleaving of stop() calls,
\* shutdown_all_processes() calls and signal deliveries, the teardown is entered
\* at most once: ProcessManager.stop() is called at most once and no tracked
\* process is sent terminate() or kill() twice.
C1_TeardownAtMostOnce ==
    \A c \in Composers :
        /\ teardownRuns[c] <= 1
        /\ pmStopCalls[c] <= 1
        /\ \A p \in ProcNames : popen[c][p].terminateCalls <= 1 /\ popen[c][p].killCalls <= 1

\* a stop() task scheduled by a signal ends while the teardown started by a
\* direct shutdown_all_processes() call is still waiting for a terminated process
C1_Witness ==
    \E c \in Composers, p \in ProcNames :
        /\ ret.op = "stop" /\ ret.c = c /\ ret.signal /\ ret.outcome = "skipped"
        /\ inflight[c]["shutdown"]["kill"] = 1
        /\ teardownRuns[c] = 1
        /\ popen[c][p].terminateCalls = 1

\* C2: when a stop() call returns on a composer whose teardown a stop() call has
\* completed (that call or an earlier one), ProcessManager.stop() has been
\* called exactly once (if there is a ProcessManager), every tracked process
\* that was found running has been sent terminate() exactly once and no other
\* has been sent it, and the composer has been unregistered exactly once.
C2_StopIdempotent ==
    \A c \in Composers :
        (StopEnded /\ ret.c = c /\ unregisterCalls[c] >= 1) =>
            /\ pmStopCalls[c] = IF process_manager[c] = "None" THEN 0 ELSE 1
            /\ \A p \in ProcNames :
                  popen[c][p].terminateCalls = IF popen[c][p].sawAlive THEN 1 ELSE 0
            /\ unregisterCalls[c] = 1
            /\ teardownRuns[c] = 1
            /\ c \notin _active_composers

\* the second of two stop() calls in sequence has returned: the first one
\* stopped the ProcessManager and terminated a process
C2_Witness ==
    \E c \in Composers, p \in ProcNames :
        /\ ret.op = "stop" /\ ret.c = c /\ ret.outcome = "skipped"
        /\ unregisterCalls[c] = 1
        /\ pmStopCalls[c] = 1
        /\ popen[c][p].terminateCalls = 1

PythonHandlers == \A s \in Signals : initialHandler[s] # "C_handler"

\* C3: once the stop() task that a signal scheduled for a composer has ended and
\* no teardown of that composer is in progress, the composer has left the
\* registry, and when the registry is empty the handlers are those in place
\* before the first registration (handlers that Python can put back).
C3_SignalStopsEveryComposer ==
    (ret.op = "stop" /\ ret.signal /\ (\A k \in Kinds, ph \in Phases : inflight[ret.c][k][ph] = 0) /\ PythonHandlers) =>
        /\ ret.c \notin _active_composers
        /\ _active_composers = {} => handler = initialHandler

\* C4: whenever a stop() call returns, its composer is not in the registry.
C4_StopLeavesRegistry ==
    StopEnded => ret.c \notin _active_composers

\* C5: a composer is in the registry from the return of its constructor until a
\* stop() unregisters it, whether or not start() was called, and a signal
\* handled while the loop runs schedules a stop() for every such composer.
C5_RegisteredFromInit ==
    /\ ret.op = "__init__" => ret.c \in _active_composers
    /\ \A c \in constructed : unregisterCalls[c] = 0 => c \in _active_composers
    /\ (ret.op = "signal" /\ ret.outcome = "running") =>
          \A c \in constructed : unregisterCalls[c] = 0 => sched[c] > 0

\* a signal has scheduled the stop() of a composer whose start() was never
\* called (its ProcessManager was never started)
C5_Witness ==
    \E c \in Composers :
        /\ ret.op = "signal" /\ ret.outcome = "running"
        /\ process_manager[c] = "created"
        /\ sched[c] > 0

RegistryChanged == ret.op = "__init__" \/ (ret.op = "stop" /\ ret.outcome = "returned")
HandlersFollowRegistry ==
    /\ \A s \in Signals : handler[s] = "module" <=> _active_composers # {}
    /\ _active_composers = {} => handler = initialHandler

\* C6 as stated: after every registration or unregistration the handlers are the
\* module handler exactly when a composer is registered, and the initial ones
\* when none is.
C6_HandlersFollowRegistry == RegistryChanged => HandlersFollowRegistry

\* C6 amended: the same, as long as every registration and unregistration so far
\* was made on the main thread (elsewhere signal.signal() raises and the
\* handlers are left as they were) and the handlers in place before the first
\* registration were installed from Python (signal.getsignal() returns None for
\* any other, and None is not put back).
C6_HandlersFollowRegistryOnMain ==
    (RegistryChanged /\ ~offMain /\ PythonHandlers) => HandlersFollowRegistry

\* the last of two composers is stopped on the main thread: the handlers are
\* the initial ones again
C6_Witness ==
    /\ ret.op = "stop" /\ ret.outcome = "returned" /\ ~offMain /\ PythonHandlers
    /\ Cardinality(constructed) = 2
    /\ _active_composers = {}
    /\ handler = initialHandler

\* C7: when shutdown_all_processes() returns, composer.processes is empty, no
\* process that was put in it is running and the ProcessManager, if any, is
\* stopped.
C7_NothingRunsAfterShutdown ==
    (ret.op = "shutdown_all_processes" /\ ret.outcome \in {"returned", "skipped"}) =>
        /\ processes[ret.c] = {}
        /\ \A p \in ProcNames : ~(popen[ret.c][p].obj = "popen" /\ popen[ret.c][p].alive)
        /\ process_manager[ret.c] \in {"None", "stopped"}

\* C8: kill() is sent only after terminate() and only when the wait for the exit
\* timed out: a process that exited within the timeout is never sent kill(), a
\* process that did not is always sent it, once.
C8_KillOnlyAfterTimeout ==
    \A c \in Composers, p \in ProcNames :
        LET r == popen[c][p] IN
        /\ r.killCalls > 0 => (r.terminateCalls > 0 /\ r.wait1 = "timeout")
        /\ r.wait1 = "exited" => r.killCalls = 0
        /\ r.wait1 = "timeout" => r.killCalls = 1
        /\ r.wait1 # "none" => r.terminateCalls = 1

\* of two gathered processes one exited in time and was not killed, the other
\* ignored terminate() and was killed
C8_Witness ==
    \E c \in Composers, p, q \in ProcNames :
        /\ popen[c][p].wait1 = "exited" /\ popen[c][p].killCalls = 0
        /\ popen[c][q].wait1 = "timeout" /\ popen[c][q].killCalls = 1

\* C9: when _kill_process has ended for a subprocess, whatever happened to
\* terminate(), wait() and kill(), close() has been attempted on each of its
\* pipes that is not None, and no error of close() has propagated.
C9_PipesAlwaysClosed ==
    \A c \in Composers, p \in ProcNames :
        (popen[c][p].obj = "popen" /\ killTask[c][p] = "done") =>
            /\ \A x \in PipeSet : popen[c][p].pipes[x] # "open"
            /\ popen[c][p].result = "ok"

\* a process that had to be killed: closing stdin raised, stdout and stderr were
\* closed all the same
C9_Witness ==
    \E c \in Composers, p \in ProcNames :
        /\ killTask[c][p] = "done"
        /\ popen[c][p].wait1 = "timeout"
        /\ popen[c][p].pipes = [x \in PipeSet |-> IF x = "stdin" THEN "failed" ELSE "closed"]

\* exactly two servers were composed into c, without an exception, and each
\* exports a tool named t
TwoServersDefineT(c) ==
    /\ Len(composeLog[c]) = 2
    /\ \A i \in 1..2 : /\ T \in Range(composeLog[c][i].info.tools)
                       /\ composeLog[c][i].raised = "none"
\* the names under which the tool t of server_name is in the unified namespace
NamesOfT(c, server_name) ==
    {n \in DOMAIN composed_tools[c] : composed_tools[c][n] = Def(server_name, T, "tool")}
\* the names in the unified namespace that hold a tool exported as t
SurvivorsOfT(c) ==
    {n \in DOMAIN composed_tools[c] : composed_tools[c][n].name = T}

\* C10 as stated: after two servers that each export a tool t are composed under
\* a strategy other than error, the tool t of each server is in the unified
\* namespace under exactly one name; under ignore exactly one of the two is.
C10_OneNamePerServer ==
    \A c \in Composers :
        (TwoServersDefineT(c) /\ conflict_resolution[c] # "error") =>
            IF conflict_resolution[c] = "ignore"
            THEN Cardinality(SurvivorsOfT(c)) = 1
            ELSE \A i \in 1..2 : Cardinality(NamesOfT(c, composeLog[c][i].server)) = 1

\* C10 amended: under prefix and suffix the tool t of each server is in the
\* unified namespace under exactly one name; under ignore only the first
\* server's is, and under override only the second server's, both under t.
C10_OneNamePerServerUnlessReplaced ==
    \A c \in Composers :
        (TwoServersDefineT(c) /\ conflict_resolution[c] # "error") =>
            LET first == composeLog[c][1].server
                second == composeLog[c][2].server
            IN CASE conflict_resolution[c] \in {"prefix", "suffix"} ->
                      /\ Cardinality(NamesOfT(c, first)) = 1
                      /\ Cardinality(NamesOfT(c, second)) = 1
                      /\ NamesOfT(c, first) # NamesOfT(c, second)
                 [] conflict_resolution[c] = "ignore" ->
                      /\ SurvivorsOfT(c) = {T}
                      /\ NamesOfT(c, first) = {T}
                      /\ NamesOfT(c, second) = {}
                 [] OTHER ->
                      /\ SurvivorsOfT(c) = {T}
                      /\ NamesOfT(c, second) = {T}
                      /\ NamesOfT(c, first) = {}

\* under override the second server's t has replaced the first server's, and
\* the record of it names both sources
C10_Witness ==
    \E c \in Composers :
        /\ TwoServersDefineT(c)
        /\ conflict_resolution[c] = "override"
        /\ composed_tools[c][T] = Def(composeLog[c][2].server, T, "tool")
        /\ \E i \in 1..Len(conflicts_resolved[c]) :
              /\ conflicts_resolved[c][i].type = "override"
              /\ conflicts_resolved[c][i].component_type = "tool"
              /\ conflicts_resolved[c][i].name = T
              /\ conflicts_resolved[c][i].previous_source = composeLog[c][1].server
              /\ conflicts_resolved[c][i].new_source = composeLog[c][2].server

\* ---------------------------------------------------------------- C11 .. C13
\* the composed dict of a category
Composed(c, k) == CompState(c).composed[k]
\* the servers composed so far whose _compose_server call returned and that
\* export name in category k
Exporters(c, k, name) ==
    {composeLog[c][i].server : i \in {j \in 1..Len(composeLog[c]) :
        /\ composeLog[c][j].raised = "none"
        /\ name \in Range(CASE k = "tool" -> composeLog[c][j].info.tools
                             [] k = "prompt" -> composeLog[c][j].info.prompts
                             [] OTHER -> composeLog[c][j].info.resources)}}
\* the resolved names under which a definition of name is stored in category k
ResolvedNamesOf(c, k, name) ==
    {x \in DOMAIN Composed(c, k) : Composed(c, k)[x].name = name}
RenamingStrategy(c) == c \in constructed /\ conflict_resolution[c] \in {"prefix", "suffix"}

\* every server that exports name has its own definition stored, under a name
\* of its own
EveryExporterKept(c) ==
    \A k \in Categories, name \in BatchToolNames \cup ToolNames :
        /\ Cardinality(ResolvedNamesOf(c, k, name)) = Cardinality(Exporters(c, k, name))
        /\ \A s \in Exporters(c, k, name) :
              \E x \in ResolvedNamesOf(c, k, name) : Composed(c, k)[x] = Def(s, name, k)
\* a step replaces or removes no entry of the composed dicts
NothingReplaced(c) ==
    /\ \A x \in DOMAIN composed_tools[c] :
          x \in DOMAIN composed_tools'[c] /\ composed_tools'[c][x] = composed_tools[c][x]
    /\ \A x \in DOMAIN composed_prompts[c] :
          x \in DOMAIN composed_prompts'[c] /\ composed_prompts'[c][x] = composed_prompts[c][x]
    /\ \A x \in DOMAIN composed_resources[c] :
          x \in DOMAIN composed_resources'[c] /\ composed_resources'[c][x] = composed_resources[c][x]

\* C11: under prefix or suffix, when N servers that each export the same name
\* have been composed, the category holds N distinct resolved names for it,
\* one per server, and no step replaces an entry registered earlier.
C11_EveryCollidingServerKept ==
    /\ [](\A c \in Composers : RenamingStrategy(c) => EveryExporterKept(c))
    /\ [][\A c \in Composers : RenamingStrategy(c) => NothingReplaced(c)]_vars
\* three servers that all export tool "t" have been composed under prefix, one
\* of them after the name "a_b_t" was taken
C11_Witness ==
    /\ conflict_resolution[TheComposer] = "prefix"
    /\ Cardinality(Exporters(TheComposer, "tool", T)) = 3
    /\ Cardinality(ResolvedNamesOf(TheComposer, "tool", T)) = 3
    /\ \E x \in DOMAIN composed_tools[TheComposer] :
          composed_tools[TheComposer][x] = Def(<<"a", "_", "b">>, T, "tool") /\ Len(x) > 5

\* the turns of the loop in which a name collision was detected
Collisions(c) == {i \in 1..Len(composeLog[c]) : composeLog[c][i].raised \in {ConflictError(k) : k \in Categories}}

\* C12: under the error strategy, whatever the entry point, once a collision
\* has been detected nothing of a later server is registered: every stored
\* definition comes from the colliding server's turn or from an earlier one.
C12_CollisionAbortsBatch ==
    \A c \in Composers :
        (c \in constructed /\ conflict_resolution[c] = "error" /\ Collisions(c) # {}) =>
            \A k \in Categories : \A x \in DOMAIN Composed(c, k) :
                \E i \in 1..Len(composeLog[c]) :
                    /\ composeLog[c][i].server = Composed(c, k)[x].server
                    /\ \A j \in Collisions(c) : i <= j

\* the servers whose turn failed, in the order of their turns
RECURSIVE FailedFrom(_, _)
FailedFrom(c, i) ==
    IF i > Len(composeLog[c]) THEN <<>>
    ELSE (IF composeLog[c][i].raised # "none" THEN <<composeLog[c][i].server>> ELSE <<>>)
         \o FailedFrom(c, i + 1)

\* C13: when compose_from_pyproject or compose_from_config ends, every
\* selected server has been attempted, whatever failed before it, and the call
\* raises exactly when some server failed, with all the failures together.
C13_EveryServerAttempted ==
    \A c \in Composers :
        (batch[c].entry \in {"compose_from_pyproject", "compose_from_config"} /\ batch[c].state \in {"raised", "returned"}) =>
            /\ batch[c].selected \subseteq {composeLog[c][i].server : i \in 1..Len(composeLog[c])}
            /\ batch[c].composition_errors = FailedFrom(c, 1)
            /\ (batch[c].state = "raised") <=> (FailedFrom(c, 1) # <<>>)
\* compose_from_config has ended with an error: its first server failed, and
\* two more servers were composed after it, the last one registering a tool
C13_Witness ==
    /\ batch[TheComposer].entry = "compose_from_config"
    /\ batch[TheComposer].state = "raised"
    /\ Len(composeLog[TheComposer]) = 3
    /\ composeLog[TheComposer][1].raised # "none"
    /\ composeLog[TheComposer][3].raised = "none"
    /\ \E x \in DOMAIN composed_tools[TheComposer] :
          composed_tools[TheComposer][x].server = composeLog[TheComposer][3].server

\* ---------------------------------------------------------------- C14 .. C17
\* C14: for every resolved name stored in a category, that category's source
\* query gives the server that supplied the definition stored under the name
\* in that category, whatever the other categories hold.
C14_SourceOfStoredDefinition ==
    \A c \in Composers :
        /\ \A n \in DOMAIN composed_tools[c] : get_tool_source(c, n) = composed_tools[c][n].server
        /\ \A n \in DOMAIN composed_prompts[c] :
              get_prompt_source(c, n) = composed_prompts[c][n].server
        /\ \A n \in DOMAIN composed_resources[c] :
              get_resource_source(c, n) = composed_resources[c][n].server

\* calc, exporting the tool add, is the i-th server composed under prefix
CalcComposedAt(i) ==
    /\ conflict_resolution[TheComposer] = "prefix"
    /\ Len(composeLog[TheComposer]) >= i
    /\ composeLog[TheComposer][i].server = Calc
    /\ Add \in Range(composeLog[TheComposer][i].info.tools)

\* C15 as stated: composed alone under prefix, through the composer's conflict
\* resolution, calc's tool add is stored under the resolved name calc_add.
C15_CalcAddPrefixed ==
    (CalcComposedAt(1) /\ Len(composeLog[TheComposer]) = 1) =>
        /\ Join(Calc, Add) \in DOMAIN composed_tools[TheComposer]
        /\ composed_tools[TheComposer][Join(Calc, Add)] = Def(Calc, Add, "tool")
\* C15, amended: composed first under prefix, calc's tool add is stored under
\* its own name add and, as long as calc is the only server, not under
\* calc_add; composed after a server that exports add, it is stored under
\* calc_add, and add keeps the earlier server's tool.
C15_CalcAddPrefixedOnCollision ==
    /\ CalcComposedAt(1) =>
          /\ Add \in DOMAIN composed_tools[TheComposer]
          /\ composed_tools[TheComposer][Add] = Def(Calc, Add, "tool")
          /\ Len(composeLog[TheComposer]) = 1 =>
                Join(Calc, Add) \notin DOMAIN composed_tools[TheComposer]
    /\ (CalcComposedAt(2) /\ Add \in Range(composeLog[TheComposer][1].info.tools)) =>
          /\ Join(Calc, Add) \in DOMAIN composed_tools[TheComposer]
          /\ composed_tools[TheComposer][Join(Calc, Add)] = Def(Calc, Add, "tool")
          /\ composed_tools[TheComposer][Add] = Def(composeLog[TheComposer][1].server, Add, "tool")
\* calc has been composed alone, and its tool add is stored under add
C15_Witness ==
    /\ CalcComposedAt(1)
    /\ Len(composeLog[TheComposer]) = 1
    /\ DOMAIN composed_tools[TheComposer] = {Add}

\* the names that the server of log entry e exports in category k
Exported(e, k) ==
    Range(CASE k = "tool" -> e.info.tools [] k = "prompt" -> e.info.prompts
            [] OTHER -> e.info.resources)

C17_OverrideRecordsBothSources ==
    \A c \in Composers : (c \in constructed /\ conflict_resolution[c] = "override") =>
        /\ \A k \in Categories : \A n \in DOMAIN Composed(c, k) :
              \E i \in 1..Len(composeLog[c]) :
                  /\ Composed(c, k)[n] = Def(composeLog[c][i].server, n, k)
                  /\ n \in Exported(composeLog[c][i], k)
                  /\ \A j \in (i + 1)..Len(composeLog[c]) : n \notin Exported(composeLog[c][j], k)
        /\ \A t \in 1..Len(composeLog[c]), k \in Categories : \A n \in Exported(composeLog[c][t], k) :
              LET earlier == {j \in 1..(t - 1) : n \in Exported(composeLog[c][j], k)}
                  records == {r \in 1..Len(conflicts_resolved[c]) :
                                 /\ conflicts_resolved[c][r].component_type = k
                                 /\ conflicts_resolved[c][r].name = n
                                 /\ conflicts_resolved[c][r].new_source = composeLog[c][t].server}
              IN IF earlier = {} THEN records = {}
                 ELSE /\ Cardinality(records) = 1
                      /\ \A r \in records :
                            /\ conflicts_resolved[c][r].type = "override"
                            /\ conflicts_resolved[c][r].previous_source =
                                  composeLog[c][CHOOSE j \in earlier : \A j2 \in earlier : j2 <= j].server

\* ------------------------------------------------------------------------ C18
\* C18: when a stdio server failed to start or to be discovered and run_server
\* has come to its end, every other configured server has had its turn and
\* the started servers were stopped only after the unified server had run.
C18_StdioFailureConfined ==
    (run.failed \cap RunStdio # {} /\ run.pc \in {"finally", "ended"}) =>
        /\ RunStdio \cup RunSse \cup RunHttp \subseteq run.done
        /\ run.served

\* ---------------------------------------------------------------- C19 .. C20
\* C19: a call returns a result only from the response that carries its own
\* id, whatever the order in which the responses arrive.
C19_ResponseMatchedById ==
    \A k \in CallIds : proxy.outcome[k].kind = "result" => proxy.outcome[k].response_id = k
\* the second request was answered while the first one was still pending, and
\* the first one was answered after it
C19_Witness ==
    /\ proxy.outcome[2] = [kind |-> "result", response_id |-> 2]
    /\ 1 \in proxy.pending
    /\ 1 \in proxy.stdout

\* C20: the step in which a call times out removes that call's pending entry
\* and no other, changes no other call's outcome and leaves the transport
\* open.
C20_TimeoutRemovesOnlyItsEntry ==
    [][\A k \in CallIds :
          (proxy.outcome[k].kind = "waiting" /\ proxy'.outcome[k].kind = "timeout") =>
              /\ proxy'.pending = proxy.pending \ {k}
              /\ \A j \in CallIds \ {k} : proxy'.outcome[j] = proxy.outcome[j]
              /\ proxy'.open /\ proxy'.stdin = proxy.stdin /\ proxy'.stdout = proxy.stdout]_vars
\* the first call has timed out; the second, pending at that time, and the
\* third, made after it, have both got their results on the open transport
C20_Witness ==
    /\ proxy.open
    /\ proxy.outcome[1].kind = "timeout"
    /\ proxy.outcome[2] = [kind |-> "result", response_id |-> 2]
    /\ proxy.outcome[3] = [kind |-> "result", response_id |-> 3]
    /\ proxy.pending = {}

\* the positions in the characters arrived at which a non-empty line ends
LineEnds == {i \in 2..Len(stream.arrived) : stream.arrived[i] = NL /\ stream.arrived[i - 1] # NL}

\* the line that ends at position i of the characters arrived
LineAt(i) ==
    LET before == {j \in 1..(i - 1) : stream.arrived[j] = NL}
        start == IF before = {} THEN 1 ELSE 1 + CHOOSE j \in before : \A h \in before : h <= j
    IN SubSeq(stream.arrived, start, i - 1)

\* C21: the messages put in the queue are the complete lines that arrived, one
\* message per line and in the order of arrival; the buffer holds what arrived
\* after the last newline, so it is empty when the arrival ends with a newline;
\* the messages are taken out of the queue in the order they were put in
C21_LinesEnqueuedInOrder ==
    /\ Len(stream.enqueued) = Cardinality(LineEnds)
    /\ \A i \in LineEnds :
         stream.enqueued[Cardinality({j \in LineEnds : j <= i})] = loads(LineAt(i))
    /\ \A i \in 1..Len(stream._buffer) : stream._buffer[i] # NL
    /\ \E n \in 0..Len(stream.arrived) :
         /\ stream._buffer = SubSeq(stream.arrived, n + 1, Len(stream.arrived))
         /\ n > 0 => stream.arrived[n] = NL
    /\ stream.dequeued \o stream._message_queue = stream.enqueued

\* two lines were completed by one read, and their messages were taken out of
\* the queue in the order of arrival
C21_Witness ==
    /\ stream.arrived = <<"1", "1", NL, "1", NL>>
    /\ stream.reads = 2
    /\ stream.dequeued = <<11, 1>>
    /\ stream._buffer = <<>>

\* C22: a read that brings no newline puts no message in the queue and leaves
\* the buffer as it was, with the characters read added; a message is put in
\* the queue only by a read that brings a newline, and there are never more
\* messages than newlines arrived
C22_NoMessageBeforeNewline ==
    [][ LET n == Len(stream.arrived)
            chunk == SubSeq(stream'.arrived, n + 1, Len(stream'.arrived))
        IN /\ Len(stream'.enqueued) <= Cardinality({i \in 1..Len(stream'.arrived) : stream'.arrived[i] = NL})
           /\ (\A i \in 1..Len(chunk) : chunk[i] # NL) =>
                /\ stream'.enqueued = stream.enqueued
                /\ stream'._buffer = stream._buffer \o chunk ]_vars

\* half a line arrived and gave no message; the message came, once, with the
\* read that brought the rest of the line and its newline
C22_Witness ==
    /\ stream.arrived = <<"1", "1", NL>>
    /\ stream.reads = 2
    /\ stream.enqueued = <<11>>

\* C23: the reconnection attempts after a failure never exceed
\* max_reconnect_attempts, none is made when reconnect_on_failure is off, the
\* failure is final exactly when no attempt is left, and a transport that
\* failed for good is never tried again
C23_ReconnectBudget ==
    [][ /\ stream._reconnect_count <= stream.max_reconnect_attempts
        /\ stream'._reconnect_count <= stream'.max_reconnect_attempts
        /\ stream'._reconnect_count > stream._reconnect_count =>
             /\ stream.reconnect_on_failure
             /\ stream'._reconnect_count = stream._reconnect_count + 1
             /\ stream'.state = "reconnecting"
        /\ (stream.state # "failed" /\ stream'.state = "failed") =>
             \/ ~stream.reconnect_on_failure
             \/ stream._reconnect_count = stream.max_reconnect_attempts
        /\ stream.state = "failed" =>
             /\ stream'.state = "failed"
             /\ stream'._reconnect_count = stream._reconnect_count ]_vars

\* every attempt of the budget was made and failed
C23_Witness ==
    /\ stream.state = "failed"
    /\ stream.reconnect_on_failure
    /\ stream.max_reconnect_attempts = MaxAttempts
    /\ stream._reconnect_count = MaxAttempts

C25_StopIdempotent ==
    [][ /\ supervised'.terminate_sent <= 1
        /\ supervised'.kill_sent <= 1
        /\ \A k \in Stoppers :
             (supervised.stop[k] = "idle" /\ supervised'.stop[k] # "idle"
                /\ supervised.state \in {"Stopping", "Stopped", "Crashed"}) =>
               supervised' = [supervised EXCEPT !.stop[k] = "done"] ]_vars

\* one caller sent both signals and the process is stopped; the other callers
\* are done too, one of them having found the process stopping
C25_Witness ==
    /\ supervised.state = "Stopped"
    /\ supervised.terminate_sent = 1
    /\ supervised.kill_sent = 1
    /\ \A k \in Stoppers : supervised.stop[k] = "done"

\* C26: a restart is made only after an unexpected exit of a running process
\* with auto-restart: the process goes to Crashed and then to Starting, and this
\* counts as exactly one restart; the restart count changes in no other step;
\* without auto-restart, and after a failed termination, the process stays
\* Crashed; with auto-restart the restart does follow the unexpected exit
C26_AutoRestart ==
    /\ [][ /\ (supervised.state = "Crashed" /\ supervised'.state # "Crashed") =>
                /\ supervised.auto_restart
                /\ supervised.last_exit = "unexpected"
                /\ supervised'.state = "Starting"
                /\ supervised'.restart_count = supervised.restart_count + 1
           /\ supervised'.restart_count # supervised.restart_count =>
                supervised.state = "Crashed" /\ supervised'.state = "Starting"
           /\ (supervised.state # "Crashed" /\ supervised'.state = "Crashed"
                 /\ supervised'.last_exit = "unexpected") => supervised.state = "Running" ]_vars
    /\ (supervised.state = "Crashed" /\ supervised.auto_restart /\ supervised.last_exit = "unexpected")
          ~> (supervised.state = "Starting")

\* the process was restarted as often as the bound allows and runs again
C26_Witness ==
    /\ supervised.state = "Running"
    /\ supervised.auto_restart
    /\ supervised.restart_count = MaxRestarts

C28_ExitedProcessOnlyPipes ==
    [][ \A c \in Composers, p \in ProcNames :
          (killTask[c][p] = "created" /\ killTask'[c][p] # "created"
             /\ popen[c][p].obj = "popen" /\ ~popen[c][p].alive) =>
            /\ killTask'[c][p] = "done"
            /\ popen'[c][p].terminateCalls = 0 /\ popen'[c][p].killCalls = 0
            /\ \A x \in PipeSet : (popen'[c][p].pipes[x] = "none") = (popen[c][p].pipes[x] = "none")
            /\ \A x \in PipeSet : popen'[c][p].pipes[x] # "open"
            /\ popen'[c][p] = [popen[c][p] EXCEPT !.pipes = popen'[c][p].pipes, !.result = "ok"] ]_vars

\* a process with three open pipes had exited before the shutdown: its pipes
\* are closed and it got no signal
C28_Witness ==
    \E c \in Composers, p \in ProcNames :
        /\ killTask[c][p] = "done"
        /\ ~popen[c][p].sawAlive
        /\ popen[c][p].terminateCalls = 0 /\ popen[c][p].killCalls = 0
        /\ popen[c][p].pipes = [x \in PipeSet |-> "closed"]

\* C29: a composer goes from active (registered, flag clear) to shutting down
\* (flag set) to inactive (out of the registry) and never back: the flag, once
\* set, stays set; a composer that has left the registry is not put in it
\* again; and only a composer whose flag is set is out of the registry
C29_LifecycleForward ==
    [][ \A c \in constructed :
          /\ _shutting_down[c] => _shutting_down'[c]
          /\ c \notin _active_composers => c \notin _active_composers'
          /\ c \notin _active_composers' => _shutting_down'[c] ]_vars

\* a composer was stopped and has left the registry, then it was started and
\* stop() was called on it once more: it is still out of the registry
C29_Witness ==
    /\ ret.op = "stop" /\ ret.outcome = "skipped"
    /\ ret.c \notin _active_composers
    /\ _shutting_down[ret.c]
    /\ unregisterCalls[ret.c] = 1

\* C30: a run of the signal handler changes nothing of the registry, of the
\* handlers, of the composers' flags and process managers, of the tracked
\* processes and of the calls under way; it schedules one stop() for each
\* registered composer when the loop runs, and nothing when the registry is
\* empty, when no loop runs and when the loop is closed
C30_SignalOnlySchedules ==
    [][ ret'.op = "signal" =>
          /\ UNCHANGED <<regVars, objVars, procVars, inflight, teardownRuns, pmStopCalls>>
          /\ \A c \in Composers :
               sched'[c] = IF ret'.outcome = "running" /\ c \in _active_composers
                           THEN sched[c] + 1 ELSE sched[c] ]_vars

\* a signal came while the loop was closed and scheduled nothing, with every
\* composer registered and one stop() scheduled for each by an earlier signal
C30_Witness ==
    /\ ret.op = "signal" /\ ret.outcome = "closed"
    /\ _active_composers = Composers
    /\ \A c \in Composers : sched[c] = 1

\* C31: when a stop() call returns, no teardown of that composer is still under
\* way, its ProcessManager, if any, is stopped, and no process it tracks is
\* running without terminate() having been sent to it
C31_StopReturnsAfterTeardown ==
    (ret.op = "stop" /\ ret.outcome \in {"returned", "skipped"}) =>
        /\ \A k \in Kinds, ph \in Phases : inflight[ret.c][k][ph] = 0
        /\ process_manager[ret.c] \in {"None", "stopped"}
        /\ \A p \in processes[ret.c] :
             (popen[ret.c][p].obj = "popen" /\ popen[ret.c][p].alive) =>
                popen[ret.c][p].terminateCalls > 0

\* C32: when the stop() of an exit from `async with composer:` returns and no
\* other call on the composer is under way, the composer tracks no process any
\* more and its ProcessManager, if any, is stopped, also when the composer had
\* been entered and left before
C32_ExitTerminatesBlock ==
    (/\ ret.op = "stop" /\ ret.outcome \in {"returned", "skipped"}
     /\ \A k \in Kinds, ph \in Phases : inflight[ret.c][k][ph] = 0) =>
        /\ processes[ret.c] = {}
        /\ process_manager[ret.c] \in {"None", "stopped"}

\* C33: when a stop() or shutdown_all_processes() has ended with the error of
\* ProcessManager.stop(), and the next call is a stop() of that composer that
\* returns with no other call on it under way, then the composer tracks no
\* process any more and is out of the registry
C33_StopAfterManagerError ==
    [][ (/\ ret.outcome = "raised"
         /\ ret'.op = "stop" /\ ret'.c = ret.c /\ ret'.outcome \in {"returned", "skipped"}
         /\ \A k \in Kinds, ph \in Phases : inflight'[ret.c][k][ph] = 0) =>
           /\ processes'[ret.c] = {}
           /\ ret.c \notin _active_composers' ]_vars

\* C34: a running process leaves composer.processes only after terminate()
\* has been sent to it, also when it was put there while a shutdown was
\* waiting for the other processes
C34_NoProcessDroppedUnterminated ==
    [][ \A c \in Composers : \A p \in processes[c] \ processes'[c] :
          (popen[c][p].obj = "popen" /\ popen[c][p].alive) =>
             popen[c][p].terminateCalls > 0 ]_vars

\* C35: the composition of one server leaves the records of the conflict log
\* as they were and adds records of that server's collisions only, none under
\* ignore, and no record is in the log twice
C35_ConflictLogAppendOnly ==
    [][ \A c \in constructed :
          LET old == conflicts_resolved[c]
              new == conflicts_resolved'[c]
          IN new # old =>
               /\ Len(new) > Len(old) /\ SubSeq(new, 1, Len(old)) = old
               /\ conflict_resolution[c] # "ignore"
               /\ \A i \in (Len(old) + 1)..Len(new) :
                    /\ new[i].type = conflict_resolution[c]
                    /\ composeLog'[c][Len(composeLog'[c])].server =
                          (IF new[i].type = "override" THEN new[i].new_source ELSE new[i].server_name)
               /\ \A i, j \in 1..Len(new) : new[i] = new[j] => i = j ]_vars

\* C36: when the composition of a server ends with an exception, the three
\* namespaces, the source mapping and the conflict log of the composer are as
\* they were before that server was attempted
C36_FailedServerLeavesNothing ==
    [][ \A c \in constructed :
          (/\ Len(composeLog'[c]) = Len(composeLog[c]) + 1
           /\ composeLog'[c][Len(composeLog'[c])].raised # "none") =>
             /\ composed_tools'[c] = composed_tools[c]
             /\ composed_prompts'[c] = composed_prompts[c]
             /\ composed_resources'[c] = composed_resources[c]
             /\ source_mapping'[c] = source_mapping[c]
             /\ conflicts_resolved'[c] = conflicts_resolved[c] ]_vars

\* C37: in run_server, a turn of the loop over the SSE servers or over the HTTP
\* servers that registers tools replaces no tool that the unified namespace
\* already holds: every name registered before the turn is still registered
\* after it, with the definition and the source it had.
C37_RemoteRegistrationKeepsTools ==
    [][ (run.pc \in {"sse", "http"} /\ run'.done # run.done) =>
          \A c \in constructed : \A k \in DOMAIN composed_tools[c] :
             /\ k \in DOMAIN composed_tools'[c]
             /\ composed_tools'[c][k] = composed_tools[c][k]
             /\ source_mapping'[c][k] = source_mapping[c][k] ]_vars

\* C38: in run_server, once the turn of an HTTP server in the discovery loop
\* is over, the transport that the turn connected has been disconnected,
\* whether the discovery succeeded or raised.
C38_DiscoveryTransportDisconnected ==
    \A server_name \in run.done : server_name \notin run.connected

\* C39: once a callback has taken the session of a state value from the
\* store (whether it then asked for the token or found the session expired),
\* no later callback with that state begins a token exchange, and each such
\* callback is answered with an error; so no state value begins more than one
\* token exchange.
C39_StateCompletesOnce ==
    [][ /\ \A s \in oauth.looked :
             /\ oauth'.exchanges[s] = oauth.exchanges[s]
             /\ s \notin DOMAIN oauth'._oauth_state_store
        /\ \A s \in 1..MaxStates : oauth'.exchanges[s] <= 1
        /\ (/\ oauth'.last # oauth.last
            /\ oauth'.last.op = "oauth_callback"
            /\ oauth'.last.state \in oauth.looked
            /\ oauth'.exchanging = oauth.exchanging) => oauth'.last.status = 400 ]_vars
\* a callback with state 1 has asked for the token and been answered, a
\* callback with state 2 has found its session expired, and a later callback
\* with state 1 and a code has been rejected
C39_Witness ==
    /\ oauth.last = [op |-> "oauth_callback", state |-> 1, status |-> 400, detail |-> "Invalid or Expired Session"]
    /\ 1 \in oauth.looked
    /\ oauth.exchanges[1] = 1
    /\ oauth.exchanging[1] = 0
    /\ 2 \in oauth.looked
    /\ oauth.exchanges[2] = 0

====
